---------------------------- MODULE Spec2Model ----------------------------
(***************************************************************************)
(* A model of the backup coordinator of src/pkg/raw/push.go: one           *)
(* BackupRange call, made of the push-down phase (pushDown.pushBackup),    *)
(* the fine-grained phase (Client.fineGrainedBackup with its workers,      *)
(* Client.handleFineGrained, SendBackup and OnBackupResponse) and the      *)
(* emission of the result tree to the meta writer.  pushBackup is the one  *)
(* of lines 37-120; package rtree, the Result of pushBackup and the tikv   *)
(* backoffer are not in the file and follow the specification's words.     *)
(*                                                                         *)
(* Keys are the integers 0..MaxKey; the user range is [StartKey, EndKey).  *)
(* Every goroutine is a process of the model; a Go channel is a sequence   *)
(* with its capacity, a send is enabled only when there is room, and a     *)
(* select takes any one of its ready cases.                                *)
(***************************************************************************)
EXTENDS Integers, Sequences, FiniteSets, Bags, TLC

(***************************************************************************)
(* Bounds of the model.                                                    *)
(***************************************************************************)
MaxKey == 2
NStores == 2
MaxPushResp == 1
MaxFgResp == 2
MaxIter == 2
MaxUnavailable == 1
LockMs == 500

(***************************************************************************)
(* Program constants.                                                      *)
(***************************************************************************)
backupFineGrainedMaxBackoff == 80000
backupRetryTimes == 5
fgWorkers == 4
fgChanCap == 4
leaderLookups == 5

Keys == 0..MaxKey

\* The user range [StartKey, EndKey) of the BackupRange call: the whole keyspace.
StartKey == CHOOSE k \in Keys : \A j \in Keys : k <= j
EndKey == MaxKey
Stores == 1..NStores

\* The intervals [s, e) a store may answer with.
Intervals == {iv \in [StartKey : Keys, EndKey : Keys] : iv.StartKey < iv.EndKey}

(***************************************************************************)
(* A response's Error: its Detail is the variant of the protobuf oneof     *)
(* ("none" for a nil Error, "other" for an Error without KV, region or     *)
(* cluster-ID detail); Locked tells whether a KV error carries lock        *)
(* information, Region is the set of fields set in a region error, and     *)
(* Retryable whether the message matches the retryable-storage pattern.    *)
(***************************************************************************)
RegionBenign == {"EpochNotMatch", "NotLeader", "RegionNotFound", "ServerIsBusy",
                 "StaleCommand", "StoreNotMatch", "ReadIndexNotReady",
                 "ProposalInMergingMode"}
RegionFields == RegionBenign \cup {"KeyNotInRegion"}

mkErr(detail, locked, region, retryable) ==
    [Detail |-> detail, Locked |-> locked, Region |-> region, Retryable |-> retryable]

ErrNone == mkErr("none", FALSE, {}, FALSE)

\* The errors the stores of the model answer with in phase 1, one of each
\* variant the type switch of pushBackup tells apart.
PushErrors ==
    {ErrNone,
     mkErr("KvError", TRUE, {}, FALSE),
     mkErr("RegionError", FALSE, {"NotLeader"}, FALSE),
     mkErr("ClusterIdError", FALSE, {}, FALSE),
     mkErr("other", FALSE, {}, FALSE)}

\* The errors the stores answer with in phase 2, one or two of each category
\* of OnBackupResponse.
FgErrors ==
    {ErrNone,
     mkErr("KvError", TRUE, {}, FALSE),
     mkErr("KvError", FALSE, {}, FALSE),
     mkErr("RegionError", FALSE, {"NotLeader"}, FALSE),
     mkErr("RegionError", FALSE, {"KeyNotInRegion"}, FALSE),
     mkErr("ClusterIdError", FALSE, {}, FALSE),
     mkErr("other", FALSE, {}, TRUE),
     mkErr("other", FALSE, {}, FALSE)}

NoResp == [StartKey |-> 0, EndKey |-> 0, Error |-> ErrNone, Files |-> <<>>]

mkResp(iv, kind, files) ==
    [StartKey |-> iv.StartKey, EndKey |-> iv.EndKey, Error |-> kind, Files |-> files]

(***************************************************************************)
(* The range tree (package rtree, and the Result of the push-down phase).  *)
(* A tree is a set of ranges [StartKey, EndKey, Files].                    *)
(***************************************************************************)
Overlaps(r, s, e) == r.StartKey < e /\ s < r.EndKey

\* A Put that inserts whatever it is given.
PutKeepsOverlap(t, s, e, files) ==
    t \cup {[StartKey |-> s, EndKey |-> e, Files |-> files]}

\* Put(start, end, files): an equal interval gets the files appended, a
\* partial overlap is rejected, otherwise the interval is inserted as is.
Put(t, s, e, files) ==
    IF \E r \in t : r.StartKey = s /\ r.EndKey = e
    THEN {IF r.StartKey = s /\ r.EndKey = e
          THEN [r EXCEPT !.Files = r.Files \o files] ELSE r : r \in t}
    ELSE IF \E r \in t : Overlaps(r, s, e)
    THEN t
    ELSE t \cup {[StartKey |-> s, EndKey |-> e, Files |-> files]}

\* Key k (the cell [k, k+1)) is covered by a stored interval.
Covered(t, k) == \E r \in t : r.StartKey <= k /\ k < r.EndKey

\* GetIncompleteRange(S, E): the maximal sub-intervals of [S, E) that no
\* stored interval intersects, as a set.
IncompleteSet(t, S, E) ==
    {iv \in [StartKey : S..E, EndKey : S..E] :
        /\ iv.StartKey < iv.EndKey
        /\ \A k \in iv.StartKey..(iv.EndKey - 1) : ~Covered(t, k)
        /\ (iv.StartKey = S \/ Covered(t, iv.StartKey - 1))
        /\ (iv.EndKey = E \/ Covered(t, iv.EndKey))}

RECURSIVE SortByStart(_)
SortByStart(set) ==
    IF set = {} THEN <<>>
    ELSE LET m == CHOOSE x \in set : \A y \in set : x.StartKey <= y.StartKey
         IN <<m>> \o SortByStart(set \ {m})

\* The same, as the list in ascending key order the callers iterate over.
GetIncompleteRange(t, S, E) == SortByStart(IncompleteSet(t, S, E))


(***************************************************************************)
(* State.                                                                  *)
(***************************************************************************)
VARIABLES
    brPc,        \* BackupRange: "start", "push", "fineGrained", "ascend", "done"
    brErr,       \* BackupRange's named result err ("nil" when none)
    allStores,   \* len(allStores): the stores GetAllTiKVStores returned
    results,     \* the range tree of this range (results / rangeTree)
    resultErrs,  \* the error markers putError recorded
    pushPc,      \* pushBackup: "idle", "spawn", "select", "returned"
    pushErr,     \* the error pushBackup returned ("nil" when none)
    spawned,     \* the stores whose worker was spawned so far
    pw,          \* the phase-1 store workers: pc and the response in hand
    pushLeft,    \* responses the stores may still deliver in phase 1
    respCh,      \* push.respCh
    errCh,       \* push.errCh
    doneCh,      \* doneCh (capacity 1): TRUE when it holds its value
    waiter,      \* the goroutine that waits for wg: "none", "wait", "done"
    failureUnits, \* the keys summary.CollectFailureUnit was called with
    fgPc,        \* fineGrainedBackup: "idle", "check", "select", "backoff", "returned"
    fgErr,       \* the error fineGrainedBackup returned ("nil" when none)
    iter,        \* the iterations of the fine-grained loop started so far
    incomplete,  \* the incomplete ranges of this iteration
    dispatcher,  \* the dispatching goroutine: pc and the next range to hand out
    retry,       \* the work channel: its buffer and whether it is closed
    fgRespCh,    \* the iteration's respCh: its buffer and whether it is closed
    fgErrCh,     \* the iteration's errCh
    maxMs,       \* max.ms
    fw,          \* the workers of the iteration: the bag of their states
    totalSleep,  \* what the backoffer bo has slept so far, in ms
    fgLeft,      \* responses the stores may still deliver in phase 2
    unavailLeft, \* Unavailable transport errors that may still happen
    progress,    \* the units progressCallBack was called with, in order
    emitted,     \* the sends to metaWriter: the range sent and whether it failed
    bsErr,       \* what BackupRanges returned ("running" before it returns)
    mutators,    \* the tasks that have mutated the range tree
    hw,          \* a worker observed on its own: its handleFineGrained call
    hLog,        \* what the observed calls did, in order
    eg,          \* the error group of BackupRanges and its range tasks
    getTS,       \* one call of Client.GetTS: its arguments, position and result
    target       \* a storage target: its files, and the clients starting on it

pushVars == <<pushPc, pushErr, spawned, pw, pushLeft, respCh, errCh, doneCh, waiter>>
brVars == <<brPc, brErr, allStores, failureUnits>>
treeVars == <<results, resultErrs, mutators>>
fgCtl == <<fgPc, fgErr, iter, incomplete, totalSleep>>
fgChans == <<dispatcher, retry, fgRespCh, fgErrCh>>
fgWork == <<maxMs, fw, fgLeft, unavailLeft>>
fgVars == <<fgCtl, fgChans, fgWork>>
outVars == <<progress, emitted, bsErr>>
coreVars == <<brVars, treeVars, pushVars, fgVars, outVars>>
startVars == <<getTS, target>>
auxVars == <<hw, hLog, eg, startVars>>
vars == <<coreVars, auxVars>>

PwIdle == [pc |-> "none", pend |-> NoResp]

NoRange == [StartKey |-> 0, EndKey |-> 0]

\* A fine-grained worker before its first range: waiting on the work channel.
\* opens and resets count the calls of client.Backup and of resetFn in the
\* worker's current SendBackup; callErr is handleFineGrained's local err.
FwIdle == [pc |-> "idle", rg |-> NoRange, store |-> 0, retry |-> 0,
           hasProgress |-> FALSE, backoffMill |-> 0, pend |-> NoResp,
           hint |-> 0, err |-> "nil", opens |-> 0, resets |-> 0,
           callErr |-> "nil"]

\* The workers of an iteration, all alike: the bag of fgWorkers idle workers.
FwStart == [r \in {FwIdle} |-> fgWorkers]

\* The workers after one in state r has moved to state r2.
FwStep(r, r2) == (fw (-) SetToBag({r})) (+) SetToBag({r2})


\* newPushDown: the channels of a fresh pushDown, no worker spawned yet.
newPushDown ==
    /\ pushPc' = "spawn"
    /\ pushErr' = "nil"
    /\ spawned' = 0
    /\ pw' = [s \in Stores |-> PwIdle]
    /\ pushLeft' = MaxPushResp
    /\ respCh' = <<>>
    /\ errCh' = <<>>
    /\ doneCh' = FALSE
    /\ waiter' = "none"

InitCore ==
    /\ brPc = "start"
    /\ brErr = "nil"
    /\ allStores = 0
    /\ results = {}
    /\ resultErrs = {}
    /\ pushPc = "idle"
    /\ pushErr = "nil"
    /\ spawned = 0
    /\ pw = [s \in Stores |-> PwIdle]
    /\ pushLeft = MaxPushResp
    /\ respCh = <<>>
    /\ errCh = <<>>
    /\ doneCh = FALSE
    /\ waiter = "none"
    /\ failureUnits = {}
    /\ fgPc = "idle"
    /\ fgErr = "nil"
    /\ iter = 0
    /\ incomplete = <<>>
    /\ dispatcher = [pc |-> "none", next |-> 1]
    /\ retry = [buf |-> <<>>, closed |-> FALSE]
    /\ fgRespCh = [buf |-> <<>>, closed |-> FALSE]
    /\ fgErrCh = <<>>
    /\ maxMs = 0
    /\ fw = FwStart
    /\ totalSleep = 0
    /\ fgLeft = MaxFgResp
    /\ unavailLeft = MaxUnavailable
    /\ progress = <<>>
    /\ emitted = <<>>
    /\ bsErr = "running"
    /\ mutators = {}

\* What the observed calls did: the responses Recv returned, those the
\* callback was called with and the hints the classifier gave for them, the
\* transport failures, the callback's error and the lookups of the leader.
NoLog == [recvd |-> <<>>, called |-> <<>>, hints |-> <<>>, unavail |-> 0,
          transport |-> FALSE, eof |-> FALSE, cbErr |-> "nil", lookups |-> <<>>,
          out |-> <<>>]

\* The error group before BackupRanges has given it a task; an error is the
\* number of the range that returned it, 0 being nil.
NoGroup == [tasks |-> <<>>, next |-> 1, free |-> 0, err |-> 0, cancelled |-> FALSE,
            order |-> <<>>, waited |-> FALSE, ret |-> 0]

\* No call of GetTS.
NoCall == [pc |-> "none", ts |-> 0, duration |-> 0, pdP |-> 0, pdL |-> 0,
           pdErr |-> FALSE, safePoint |-> 0, pdReads |-> 0, backupTS |-> 0,
           ret |-> 0, err |-> "nil"]

\* A storage target nobody uses.
NoTarget == [files |-> <<>>, rewrites |-> FALSE, clients |-> <<>>,
             w |-> [pc |-> "none"], read |-> <<>>]

Init ==
    /\ InitCore
    /\ hw = FwIdle
    /\ hLog = NoLog
    /\ eg = NoGroup
    /\ getTS = NoCall
    /\ target = NoTarget

\* hex.EncodeToString of a one-byte key: its two hexadecimal digits.
HexEncode(k) == <<(k \div 16) % 16, k % 16>>

\* The key of a failure unit: "range start:" hex(startKey) " end:" hex(endKey).
FailureKey == <<"range start:", HexEncode(StartKey), " end:", HexEncode(EndKey)>>

\* A deferred function that records the unit whatever err is.
BrReturnRecordsAlways(err) ==
    /\ brPc' = "done"
    /\ brErr' = err
    /\ failureUnits' = failureUnits \cup {FailureKey}

\* BackupRange returns err: the deferred function records a failure unit
\* when err is not nil.
BrReturn(err) ==
    /\ brPc' = "done"
    /\ brErr' = err
    /\ failureUnits' = IF err # "nil" THEN failureUnits \cup {FailureKey}
                                      ELSE failureUnits

(***************************************************************************)
(* BackupRange, up to the call of pushBackup.                              *)
(***************************************************************************)
BrGetStores ==
    /\ brPc = "start"
    /\ \/ \E n \in 0..NStores :
            /\ allStores' = n
            /\ brPc' = "push"
            /\ newPushDown
            /\ UNCHANGED <<brErr, failureUnits, treeVars>>
       \/ /\ BrReturn("GetAllTiKVStores")
          /\ UNCHANGED <<allStores, treeVars, pushVars>>
    /\ UNCHANGED <<fgVars, outVars>>
    /\ UNCHANGED auxVars

(***************************************************************************)
(* pushDown.pushBackup.                                                    *)
(***************************************************************************)
\* The loop over the stores: NewBackupClient, then the worker's goroutine.
PushSpawn ==
    /\ pushPc = "spawn"
    /\ spawned < allStores
    /\ \/ /\ spawned' = spawned + 1
          /\ pw' = [pw EXCEPT ![spawned + 1].pc = "open"]
          /\ UNCHANGED <<pushPc, pushErr, treeVars>>
       \/ /\ pushPc' = "returned"
          /\ pushErr' = "NewBackupClient"
          /\ results' = {}
          /\ resultErrs' = {}
          /\ UNCHANGED <<spawned, pw, mutators>>
    /\ UNCHANGED <<fgVars, outVars, brVars, pushLeft, respCh, errCh, doneCh, waiter>>
    /\ UNCHANGED auxVars

\* All stores spawned: the goroutine waiting for wg starts, results := newResult().
PushStartSelect ==
    /\ pushPc = "spawn"
    /\ spawned = allStores
    /\ pushPc' = "select"
    /\ waiter' = "wait"
    /\ results' = {}
    /\ resultErrs' = {}
    /\ UNCHANGED <<mutators, fgVars, outVars, brVars, pushErr, spawned, pw, pushLeft, respCh, errCh, doneCh>>
    /\ UNCHANGED auxVars

\* A worker leaves: wg.Done() by defer.
PwExit(s) == [pw EXCEPT ![s] = [pc |-> "done", pend |-> NoResp]]

\* client.Backup(push.ctx, &req): the stream opens, or the error goes to errCh.
PwOpen(s) ==
    /\ pw[s].pc = "open"
    /\ \/ /\ pw' = [pw EXCEPT ![s].pc = "recv"]
          /\ UNCHANGED errCh
       \/ /\ Len(errCh) < allStores
          /\ errCh' = Append(errCh, "stream")
          /\ pw' = PwExit(s)
    /\ UNCHANGED <<fgVars, outVars, brVars, treeVars, pushPc, pushErr, spawned, pushLeft, respCh, doneCh, waiter>>
    /\ UNCHANGED auxVars

\* bcli.Recv(): a response, io.EOF, or another error, which goes to errCh.
PwRecv(s) ==
    /\ pw[s].pc = "recv"
    /\ \/ /\ pushLeft > 0
          /\ \E iv \in Intervals, e \in PushErrors :
                pw' = [pw EXCEPT ![s] = [pc |-> "send",
                          pend |-> mkResp(iv, e, IF e = ErrNone THEN <<s>> ELSE <<>>)]]
          /\ pushLeft' = pushLeft - 1
          /\ UNCHANGED errCh
       \/ /\ pw' = PwExit(s)
          /\ UNCHANGED <<errCh, pushLeft>>
       \/ /\ Len(errCh) < allStores
          /\ errCh' = Append(errCh, "stream")
          /\ pw' = PwExit(s)
          /\ UNCHANGED pushLeft
    /\ UNCHANGED <<fgVars, outVars, brVars, treeVars, pushPc, pushErr, spawned, respCh, doneCh, waiter>>
    /\ UNCHANGED auxVars

\* push.respCh <- resp: blocks while the channel is full.
PwSend(s) ==
    /\ pw[s].pc = "send"
    /\ Len(respCh) < allStores
    /\ respCh' = Append(respCh, pw[s].pend)
    /\ pw' = [pw EXCEPT ![s] = [pc |-> "recv", pend |-> NoResp]]
    /\ UNCHANGED <<fgVars, outVars, brVars, treeVars, pushPc, pushErr, spawned, pushLeft, errCh, doneCh, waiter>>
    /\ UNCHANGED auxVars

\* wg.Wait() returned: every spawned worker has left.
WgDone == \A s \in 1..spawned : pw[s].pc = "done"

\* go func() { wg.Wait(); doneCh <- true }()
PushWaiter ==
    /\ waiter = "wait"
    /\ WgDone
    /\ ~doneCh
    /\ doneCh' = TRUE
    /\ waiter' = "done"
    /\ UNCHANGED <<fgVars, outVars, brVars, treeVars, pushPc, pushErr, spawned, pw, pushLeft, respCh, errCh>>
    /\ UNCHANGED auxVars

\* select, case <-doneCh: return results, nil.
PushSelectDone ==
    /\ pushPc = "select"
    /\ doneCh
    /\ doneCh' = FALSE
    /\ pushPc' = "returned"
    /\ pushErr' = "nil"
    /\ UNCHANGED <<fgVars, outVars, brVars, treeVars, spawned, pw, pushLeft, respCh, errCh, waiter>>
    /\ UNCHANGED auxVars

\* What the supervisor does with a response: the type switch on its error,
\* and the statement after the switch.  Gives <<results, resultErrs, error>>.
putError(errs, resp) == errs \cup {[StartKey |-> resp.StartKey, EndKey |-> resp.EndKey]}
putOk(t, resp) == Put(t, resp.StartKey, resp.EndKey, resp.Files)

pushHandleResp(t, errs, resp) ==
    CASE resp.Error.Detail = "none" -> <<putOk(t, resp), errs, "nil">>
      [] resp.Error.Detail \in {"KvError", "RegionError"} ->
            <<putOk(t, resp), putError(errs, resp), "nil">>
      [] resp.Error.Detail = "ClusterIdError" -> <<t, errs, "ClusterIdError">>
      [] OTHER -> <<t, errs, "unknown">>

\* select, case resp := <-push.respCh.
PushSelectResp ==
    /\ pushPc = "select"
    /\ respCh # <<>>
    /\ LET out == pushHandleResp(results, resultErrs, Head(respCh))
       IN /\ results' = out[1]
          /\ resultErrs' = out[2]
          /\ pushErr' = out[3]
          /\ pushPc' = IF out[3] = "nil" THEN "select" ELSE "returned"
          /\ mutators' = IF out[3] = "nil" THEN mutators \cup {"BackupRange"}
                                           ELSE mutators
    /\ respCh' = Tail(respCh)
    /\ UNCHANGED <<fgVars, outVars, brVars, spawned, pw, pushLeft, errCh, doneCh, waiter>>
    /\ UNCHANGED auxVars

\* select, case err := <-push.errCh: return results, err.
PushSelectErr ==
    /\ pushPc = "select"
    /\ errCh # <<>>
    /\ errCh' = Tail(errCh)
    /\ pushPc' = "returned"
    /\ pushErr' = Head(errCh)
    /\ UNCHANGED <<fgVars, outVars, brVars, treeVars, spawned, pw, pushLeft, respCh, doneCh, waiter>>
    /\ UNCHANGED auxVars

(***************************************************************************)
(* BackupRange, after pushBackup: its error is returned, otherwise the     *)
(* tree goes to fineGrainedBackup.  On a nil return every worker of        *)
(* pushBackup has left; what they left in respCh stays there.              *)
(***************************************************************************)
\* A BackupRange that does not look at pushBackup's error.
BrAfterPushIgnoresErr ==
    /\ brPc = "push"
    /\ pushPc = "returned"
    /\ brPc' = "fineGrained"
    /\ fgPc' = "check"
    /\ totalSleep' = 0
    /\ UNCHANGED <<brErr, failureUnits, allStores, treeVars, pushVars,
                   fgErr, iter, incomplete, fgChans, fgWork, outVars>>
    /\ UNCHANGED auxVars

\* A BackupRange that starts the fine-grained phase while pushBackup runs.
BrAfterPushEarly ==
    /\ brPc = "push"
    /\ pushPc \in {"select", "returned"}
    /\ pushErr = "nil"
    /\ brPc' = "fineGrained"
    /\ fgPc' = "check"
    /\ totalSleep' = 0
    /\ UNCHANGED <<brErr, failureUnits, allStores, treeVars, pushVars,
                   fgErr, iter, incomplete, fgChans, fgWork, outVars>>
    /\ UNCHANGED auxVars

BrAfterPush ==
    /\ brPc = "push"
    /\ pushPc = "returned"
    /\ IF pushErr # "nil"
       THEN /\ BrReturn(pushErr)
            /\ UNCHANGED <<allStores, treeVars, pushVars, fgVars>>
       ELSE /\ brPc' = "fineGrained"
            /\ fgPc' = "check"
            /\ totalSleep' = 0
            /\ resultErrs' = {}
            /\ spawned' = 0
            /\ pw' = [s \in Stores |-> PwIdle]
            /\ pushLeft' = 0
            /\ doneCh' = FALSE
            /\ errCh' = <<>>
            /\ waiter' = "none"
            /\ allStores' = 0
            /\ UNCHANGED <<brErr, failureUnits, results, mutators, respCh,
                           pushPc, pushErr, fgErr, iter, incomplete, fgChans, fgWork>>
    /\ UNCHANGED outVars
    /\ UNCHANGED auxVars

(***************************************************************************)
(* OnBackupResponse: (response, backoffMs, err) for a response; lock is    *)
(* what lockResolver.ResolveLocks returns for a locked key.                *)
(***************************************************************************)
regionBackoffMs == 1000
storageBackoffMs == 3000
noProgressBackoffMs == 10000
failedToConnectBackoffMs == 20000

Classified(resp, isNil, ms, err) ==
    [response |-> resp, isNil |-> isNil, backoffMs |-> ms, err |-> err]

\* A KV branch that hands on whatever the resolver returned as the hint.
onKvErrorRawHint(e, lock) ==
    IF e.Locked
    THEN IF lock.err THEN Classified(NoResp, TRUE, 0, "ResolveLocks")
         ELSE Classified(NoResp, TRUE, lock.ms, "nil")
    ELSE Classified(NoResp, TRUE, 0, "ErrKVUnknown")

\* case *backuppb.Error_KvError: a locked key goes to the lock resolver.
onKvError(e, lock) ==
    IF e.Locked
    THEN IF lock.err THEN Classified(NoResp, TRUE, 0, "ResolveLocks")
         ELSE Classified(NoResp, TRUE, IF lock.ms > 0 THEN lock.ms ELSE 0, "nil")
    ELSE Classified(NoResp, TRUE, 0, "ErrKVUnknown")

\* A region branch that backs off only when every field set is an ignored one.
onRegionErrorAllBenign(e) ==
    IF e.Region = {} \/ ~(e.Region \subseteq RegionBenign)
    THEN Classified(NoResp, TRUE, 0, "ErrKVUnknown")
    ELSE Classified(NoResp, TRUE, regionBackoffMs, "nil")

\* case *backuppb.Error_RegionError: the errors to ignore, and the others.
onRegionError(e) ==
    IF e.Region \cap RegionBenign = {}
    THEN Classified(NoResp, TRUE, 0, "ErrKVUnknown")
    ELSE Classified(NoResp, TRUE, regionBackoffMs, "nil")

\* A default branch that takes a retryable storage error for an unknown one.
onDefaultNeverRetries(e) == Classified(NoResp, TRUE, 0, "ErrKVUnknown")

\* default: MessageIsRetryableStorageError(msg), or an unknown error.
onDefault(e) ==
    IF e.Retryable THEN Classified(NoResp, TRUE, storageBackoffMs, "nil")
    ELSE Classified(NoResp, TRUE, 0, "ErrKVUnknown")

\* A classifier that hands back the response of a benign region error.
OnBackupResponseForwardsAll(resp, lock) ==
    LET e == resp.Error IN
    CASE e.Detail = "none" -> Classified(resp, FALSE, 0, "nil")
      [] e.Detail = "KvError" -> onKvError(e, lock)
      [] e.Detail = "RegionError" ->
            IF onRegionError(e).err = "nil"
            THEN Classified(resp, FALSE, regionBackoffMs, "nil")
            ELSE onRegionError(e)
      [] e.Detail = "ClusterIdError" ->
            Classified(NoResp, TRUE, 0, "ErrKVClusterIDMismatch")
      [] OTHER -> onDefault(e)

OnBackupResponse(resp, lock) ==
    LET e == resp.Error IN
    CASE e.Detail = "none" -> Classified(resp, FALSE, 0, "nil")
      [] e.Detail = "KvError" -> onKvError(e, lock)
      [] e.Detail = "RegionError" -> onRegionError(e)
      [] e.Detail = "ClusterIdError" ->
            Classified(NoResp, TRUE, 0, "ErrKVClusterIDMismatch")
      [] OTHER -> onDefault(e)

\* What ResolveLocks may return: the lock is gone, it expires in LockMs, or
\* the resolver fails.
LockOutcomes == {[ms |-> 0, err |-> FALSE], [ms |-> LockMs, err |-> FALSE],
                 [ms |-> 0, err |-> TRUE]}

(***************************************************************************)
(* findRegionLeader: lookups are the results of the successive GetRegion   *)
(* calls; the leader of the first lookup that has one, within 5 lookups.   *)
(***************************************************************************)
Lookup(kind, store) == [kind |-> kind, store |-> store]
NoLeader == Lookup("ErrBackupNoLeader", 0)

\* A loop that looks up once more than leaderLookups times.
RECURSIVE findRegionLeaderFromOneMore(_, _)
findRegionLeaderFromOneMore(lookups, i) ==
    IF i > leaderLookups THEN NoLeader
    ELSE IF lookups[i + 1].kind \in {"err", "nil"} THEN findRegionLeaderFromOneMore(lookups, i + 1)
    ELSE IF lookups[i + 1].kind = "leader" THEN lookups[i + 1]
    ELSE findRegionLeaderFromOneMore(lookups, i + 1)

\* The loop of findRegionLeader from its iteration i on.
RECURSIVE findRegionLeaderFrom(_, _)
findRegionLeaderFrom(lookups, i) ==
    IF i >= leaderLookups THEN NoLeader
    ELSE IF lookups[i + 1].kind \in {"err", "nil"} THEN findRegionLeaderFrom(lookups, i + 1)
    ELSE IF lookups[i + 1].kind = "leader" THEN lookups[i + 1]
    ELSE findRegionLeaderFrom(lookups, i + 1)

findRegionLeader(lookups) == findRegionLeaderFrom(lookups, 0)

\* The lookup sequences of the model: k failures of one kind, then a region
\* whose leader is on the first store.
LeaderStore == CHOOSE s \in Stores : \A s2 \in Stores : s <= s2

LookupScripts ==
    {[i \in 1..leaderLookups |-> IF i <= k THEN Lookup(f, 0) ELSE Lookup("leader", LeaderStore)] :
        k \in {0, leaderLookups - 1, leaderLookups}, f \in {"err", "noLeader"}}

(***************************************************************************)
(* The backoffer bo of fineGrainedBackup: it caps the cumulative sleep at   *)
(* its budget; BackoffWithMaxSleepTxnLockFast fails when the sleep would   *)
(* exceed the budget, otherwise it sleeps.                                 *)
(***************************************************************************)
Backoff(total, ms) ==
    IF total + ms > backupFineGrainedMaxBackoff
    THEN [err |-> "BackoffExhausted", total |-> total]
    ELSE [err |-> "nil", total |-> total + ms]

(***************************************************************************)
(* fineGrainedBackup: the supervisor.                                      *)
(***************************************************************************)
\* A check that lets one incomplete range pass.
FgReturnsNilEarly(t) == Len(GetIncompleteRange(t, StartKey, EndKey)) <= 1

\* len(incomplete) == 0
FgReturnsNil(t) == Len(GetIncompleteRange(t, StartKey, EndKey)) = 0

\* Step 1 and the start of step 2: the incomplete ranges; none: return nil;
\* otherwise fresh channels, the workers and the dispatcher.
FgCheckUpTo(maxIter) ==
    /\ fgPc = "check"
    /\ IF FgReturnsNil(results)
       THEN /\ fgPc' = "returned"
            /\ fgErr' = "nil"
            /\ UNCHANGED <<iter, incomplete, fgChans, fgWork>>
       ELSE /\ iter < maxIter
            /\ iter' = iter + 1
            /\ incomplete' = GetIncompleteRange(results, StartKey, EndKey)
            /\ retry' = [buf |-> <<>>, closed |-> FALSE]
            /\ fgRespCh' = [buf |-> <<>>, closed |-> FALSE]
            /\ fgErrCh' = <<>>
            /\ maxMs' = 0
            /\ fw' = FwStart
            /\ dispatcher' = [pc |-> "send", next |-> 1]
            /\ fgPc' = "select"
            /\ UNCHANGED <<fgErr, fgLeft, unavailLeft>>
    /\ UNCHANGED <<brVars, treeVars, pushVars, totalSleep, outVars>>
    /\ UNCHANGED auxVars

FgCheck == FgCheckUpTo(MaxIter)

\* The dispatcher: retry <- rg for each incomplete range, then close(retry).
FgDispatch ==
    /\ dispatcher.pc = "send"
    /\ IF dispatcher.next <= Len(incomplete)
       THEN /\ Len(retry.buf) < fgChanCap
            /\ retry' = [retry EXCEPT !.buf = Append(@, incomplete[dispatcher.next])]
            /\ dispatcher' = [dispatcher EXCEPT !.next = @ + 1]
       ELSE /\ retry' = [retry EXCEPT !.closed = TRUE]
            /\ dispatcher' = [dispatcher EXCEPT !.pc = "wait"]
    /\ UNCHANGED <<brVars, treeVars, pushVars, fgCtl, fgRespCh, fgErrCh, fgWork, outVars>>
    /\ UNCHANGED auxVars

\* The dispatcher: wg.Wait(), then close(respCh).
FgWorkersDone == \A r \in BagToSet(fw) : r.pc = "exit"

\* A dispatcher that closes respCh without wg.Wait().
FgDispatchCloseNoWait ==
    /\ dispatcher.pc = "wait"
    /\ fgRespCh' = [fgRespCh EXCEPT !.closed = TRUE]
    /\ dispatcher' = [dispatcher EXCEPT !.pc = "done"]
    /\ UNCHANGED <<brVars, treeVars, pushVars, fgCtl, retry, fgErrCh, fgWork, outVars>>
    /\ UNCHANGED auxVars

FgDispatchClose ==
    /\ dispatcher.pc = "wait"
    /\ FgWorkersDone
    /\ fgRespCh' = [fgRespCh EXCEPT !.closed = TRUE]
    /\ dispatcher' = [dispatcher EXCEPT !.pc = "done"]
    /\ UNCHANGED <<brVars, treeVars, pushVars, fgCtl, retry, fgErrCh, fgWork, outVars>>
    /\ UNCHANGED auxVars

\* select, case err := <-errCh: return err.
FgSelectErr ==
    /\ fgPc = "select"
    /\ fgErrCh # <<>>
    /\ fgErrCh' = Tail(fgErrCh)
    /\ fgPc' = "returned"
    /\ fgErr' = Head(fgErrCh)
    /\ UNCHANGED <<brVars, treeVars, pushVars, iter, incomplete, totalSleep,
                   dispatcher, retry, fgRespCh, fgWork, outVars>>
    /\ UNCHANGED auxVars

\* A select that inserts the response without the RegionUnit tick.
FgSelectRespNoTick ==
    /\ fgPc = "select"
    /\ fgRespCh.buf # <<>>
    /\ fgRespCh' = [fgRespCh EXCEPT !.buf = Tail(@)]
    /\ LET resp == Head(fgRespCh.buf)
       IN IF resp.Error # ErrNone
          THEN /\ fgPc' = "panic"
               /\ UNCHANGED <<results, mutators, outVars>>
          ELSE /\ results' = Put(results, resp.StartKey, resp.EndKey, resp.Files)
               /\ mutators' = mutators \cup {"BackupRange"}
               /\ UNCHANGED progress
               /\ UNCHANGED fgPc
    /\ UNCHANGED <<brVars, resultErrs, pushVars, fgErr, iter, incomplete, totalSleep,
                   dispatcher, retry, fgErrCh, fgWork, emitted, bsErr>>
    /\ UNCHANGED auxVars

\* select, case resp, ok := <-respCh with ok: panic on an error, otherwise
\* rangeTree.Put and a RegionUnit tick.
FgSelectResp ==
    /\ fgPc = "select"
    /\ fgRespCh.buf # <<>>
    /\ fgRespCh' = [fgRespCh EXCEPT !.buf = Tail(@)]
    /\ LET resp == Head(fgRespCh.buf)
       IN IF resp.Error # ErrNone
          THEN /\ fgPc' = "panic"
               /\ UNCHANGED <<results, mutators, outVars>>
          ELSE /\ results' = Put(results, resp.StartKey, resp.EndKey, resp.Files)
               /\ mutators' = mutators \cup {"BackupRange"}
               /\ progress' = Append(progress, "region")
               /\ UNCHANGED fgPc
    /\ UNCHANGED <<brVars, resultErrs, pushVars, fgErr, iter, incomplete, totalSleep,
                   dispatcher, retry, fgErrCh, fgWork, emitted, bsErr>>
    /\ UNCHANGED auxVars

\* select, case resp, ok := <-respCh with !ok: break selectLoop.
FgSelectClosed ==
    /\ fgPc = "select"
    /\ fgRespCh.buf = <<>>
    /\ fgRespCh.closed
    /\ fgPc' = "backoff"
    /\ UNCHANGED <<brVars, treeVars, pushVars, fgErr, iter, incomplete, totalSleep,
                   fgChans, fgWork, outVars>>
    /\ UNCHANGED auxVars

\* A step 3 whose backoffer is made anew in every iteration.
FgBackoffPerIteration ==
    /\ fgPc = "backoff"
    /\ IF maxMs # 0
       THEN LET bo == Backoff(0, maxMs)
            IN /\ totalSleep' = totalSleep + bo.total
               /\ fgErr' = bo.err
               /\ fgPc' = IF bo.err # "nil" THEN "returned" ELSE "check"
       ELSE /\ fgPc' = "check"
            /\ UNCHANGED <<totalSleep, fgErr>>
    /\ UNCHANGED <<brVars, treeVars, pushVars, iter, incomplete, fgChans, fgWork, outVars>>
    /\ UNCHANGED auxVars

\* Step 3: back off by max.ms when it is not 0, then loop.
FgBackoff ==
    /\ fgPc = "backoff"
    /\ IF maxMs # 0
       THEN LET bo == Backoff(totalSleep, maxMs)
            IN /\ totalSleep' = bo.total
               /\ fgErr' = bo.err
               /\ fgPc' = IF bo.err # "nil" THEN "returned" ELSE "check"
       ELSE /\ fgPc' = "check"
            /\ UNCHANGED <<totalSleep, fgErr>>
    /\ UNCHANGED <<brVars, treeVars, pushVars, iter, incomplete, fgChans, fgWork, outVars>>
    /\ UNCHANGED auxVars

(***************************************************************************)
(* The workers of an iteration: for rg := range retry { handleFineGrained }*)
(***************************************************************************)
FwTake(r) ==
    /\ r.pc = "idle"
    /\ IF retry.buf # <<>>
       THEN /\ fw' = FwStep(r, [FwIdle EXCEPT !.pc = "handle", !.rg = Head(retry.buf)])
            /\ retry' = [retry EXCEPT !.buf = Tail(@)]
       ELSE /\ retry.closed
            /\ fw' = FwStep(r, [FwIdle EXCEPT !.pc = "exit"])
            /\ UNCHANGED retry
    /\ UNCHANGED <<brVars, treeVars, pushVars, fgCtl, dispatcher, fgRespCh, fgErrCh,
                   maxMs, fgLeft, unavailLeft, outVars>>
    /\ UNCHANGED auxVars

\* handleFineGrained returns (hint, err) to the worker's loop.
FwReturns(r, hint, err) ==
    [r EXCEPT !.pc = "ret", !.hint = hint, !.err = err, !.pend = NoResp]

\* A handleFineGrained that returns every error of SendBackup.
handleAfterSendPropagates(r, err) ==
    LET o == [r EXCEPT !.callErr = err] IN
    IF err # "nil" THEN FwReturns(o, 0, err)
    ELSE FwReturns(o, IF ~r.hasProgress THEN noProgressBackoffMs ELSE r.backoffMill, "nil")

\* handleFineGrained after SendBackup returned err: FailedToConnect becomes
\* the hint 20000, another error is returned, and without an error the hint
\* is 10000 when there was no progress.
handleAfterSend(r, err) ==
    LET o == [r EXCEPT !.callErr = err] IN
    IF err # "nil"
    THEN IF err = "ErrFailedToConnect"
         THEN FwReturns(o, failedToConnectBackoffMs, "nil")
         ELSE FwReturns(o, 0, err)
    ELSE FwReturns(o, IF ~r.hasProgress THEN noProgressBackoffMs ELSE r.backoffMill, "nil")

\* A handleFineGrained that returns every error of GetBackupClient.
handleStartPropagates(r, lookups, client) ==
    LET leader == findRegionLeader(lookups) IN
    IF leader.kind # "leader" THEN FwReturns(r, 0, "ErrBackupNoLeader")
    ELSE IF client = "ok"
    THEN [r EXCEPT !.pc = "open", !.store = leader.store, !.retry = 0,
                   !.hasProgress = FALSE, !.backoffMill = 0]
    ELSE FwReturns([r EXCEPT !.callErr = client], 0, client)

\* handleFineGrained up to the call of SendBackup: the leader of rg.StartKey
\* and the backup client of its store.
handleStart(r, lookups, client) ==
    LET leader == findRegionLeader(lookups) IN
    IF leader.kind # "leader" THEN FwReturns(r, 0, "ErrBackupNoLeader")
    ELSE IF client = "ok"
    THEN [r EXCEPT !.pc = "open", !.store = leader.store, !.retry = 0,
                   !.hasProgress = FALSE, !.backoffMill = 0]
    ELSE IF client = "ErrFailedToConnect"
    THEN FwReturns([r EXCEPT !.callErr = client], failedToConnectBackoffMs, "nil")
    ELSE FwReturns([r EXCEPT !.callErr = client], 0, client)

FwHandle(r) ==
    /\ r.pc = "handle"
    /\ \E lookups \in LookupScripts, client \in {"ok", "ErrFailedToConnect", "ErrUnknown"} :
            fw' = FwStep(r, handleStart(r, lookups, client))
    /\ UNCHANGED <<brVars, treeVars, pushVars, fgCtl, fgChans, maxMs, fgLeft,
                   unavailLeft, outVars>>
    /\ UNCHANGED auxVars

(***************************************************************************)
(* SendBackup, as run by a worker.                                         *)
(***************************************************************************)
\* A retry that does not reset the connection.
sendRetryNoReset(r, reset) == [r EXCEPT !.pc = "open", !.retry = @ + 1]

\* A retryable error: resetFn, and the next attempt when it succeeded.
sendRetry(r, reset) ==
    LET o == [r EXCEPT !.resets = @ + 1] IN
    IF reset = "ok" THEN [o EXCEPT !.pc = "open", !.retry = @ + 1]
    ELSE handleAfterSend(o, reset)

\* A backupLoop that runs while retry <= backupRetryTimes.
sendOpenOneMore(r, outcome, reset) ==
    IF r.retry > backupRetryTimes THEN handleAfterSend(r, "nil")
    ELSE LET o == [r EXCEPT !.opens = @ + 1] IN
         IF outcome = "ok" THEN [o EXCEPT !.pc = "recv"]
         ELSE IF outcome = "Unavailable" THEN sendRetry(o, reset)
         ELSE handleAfterSend(o, "ErrFailedToConnect")

\* The head of backupLoop and client.Backup(ctx, &req).
sendOpen(r, outcome, reset) ==
    IF r.retry >= backupRetryTimes THEN handleAfterSend(r, "nil")
    ELSE LET o == [r EXCEPT !.opens = @ + 1] IN
         IF outcome = "ok" THEN [o EXCEPT !.pc = "recv"]
         ELSE IF outcome = "Unavailable" THEN sendRetry(o, reset)
         ELSE handleAfterSend(o, "ErrFailedToConnect")

ResetOutcomes == {"ok", "ErrFailedToConnect", "ErrUnknown"}

FwOpen(r) ==
    /\ r.pc = "open"
    /\ \E outcome \in {"ok", "Unavailable", "Unknown"}, reset \in ResetOutcomes :
        /\ outcome = "Unavailable" => unavailLeft > 0
        /\ outcome # "Unavailable" => reset = "ok"
        /\ fw' = FwStep(r, sendOpen(r, outcome, reset))
        /\ unavailLeft' = IF outcome = "Unavailable" /\ r.retry < backupRetryTimes
                          THEN unavailLeft - 1 ELSE unavailLeft
    /\ UNCHANGED <<brVars, treeVars, pushVars, fgCtl, fgChans, maxMs, fgLeft, outVars>>
    /\ UNCHANGED auxVars

\* A callback that goes on after the classifier's error.
respFnIgnoresErr(r, c) ==
    LET ms == IF r.backoffMill < c.backoffMs THEN c.backoffMs ELSE r.backoffMill
    IN IF ~c.isNil
       THEN [r EXCEPT !.pc = "send", !.backoffMill = ms, !.pend = c.response]
       ELSE [r EXCEPT !.backoffMill = ms, !.hasProgress = TRUE]

\* A callback that counts only a forwarded response as progress.
respFnNoProgressOnHint(r, c) ==
    IF c.err # "nil" THEN handleAfterSend(r, c.err)
    ELSE LET ms == IF r.backoffMill < c.backoffMs THEN c.backoffMs ELSE r.backoffMill
         IN IF ~c.isNil
            THEN [r EXCEPT !.pc = "send", !.backoffMill = ms, !.pend = c.response]
            ELSE [r EXCEPT !.backoffMill = ms]

\* The callback handleFineGrained gives to SendBackup, up to its send on respCh.
respFn(r, c) ==
    IF c.err # "nil" THEN handleAfterSend(r, c.err)
    ELSE LET ms == IF r.backoffMill < c.backoffMs THEN c.backoffMs ELSE r.backoffMill
         IN IF ~c.isNil
            THEN [r EXCEPT !.pc = "send", !.backoffMill = ms, !.pend = c.response]
            ELSE [r EXCEPT !.backoffMill = ms, !.hasProgress = TRUE]

\* bcli.Recv(): a response, io.EOF, Unavailable or another error.
FwRecv(r) ==
    /\ r.pc = "recv"
    /\ \/ /\ fgLeft > 0
          /\ fgLeft' = fgLeft - 1
          /\ \E iv \in Intervals, e \in FgErrors, lock \in LockOutcomes :
                /\ ~e.Locked => lock = [ms |-> 0, err |-> FALSE]
                /\ fw' = FwStep(r, respFn(r, OnBackupResponse(
                            mkResp(iv, e, IF e = ErrNone THEN <<r.store>> ELSE <<>>), lock)))
          /\ UNCHANGED unavailLeft
       \/ /\ fw' = FwStep(r, handleAfterSend(r, "nil"))
          /\ UNCHANGED <<fgLeft, unavailLeft>>
       \/ /\ unavailLeft > 0
          /\ unavailLeft' = unavailLeft - 1
          /\ \E reset \in ResetOutcomes : fw' = FwStep(r, sendRetry(r, reset))
          /\ UNCHANGED fgLeft
       \/ /\ fw' = FwStep(r, handleAfterSend(r, "ErrFailedToConnect"))
          /\ UNCHANGED <<fgLeft, unavailLeft>>
    /\ UNCHANGED <<brVars, treeVars, pushVars, fgCtl, fgChans, maxMs, outVars>>
    /\ UNCHANGED auxVars

\* A callback that puts the response into the tree itself.
FwSendPutsTree(r) ==
    /\ r.pc = "send"
    /\ results' = Put(results, r.pend.StartKey, r.pend.EndKey, r.pend.Files)
    /\ mutators' = mutators \cup {"worker"}
    /\ fw' = FwStep(r, [r EXCEPT !.pc = "recv", !.pend = NoResp, !.hasProgress = TRUE])
    /\ UNCHANGED <<brVars, resultErrs, pushVars, fgCtl, fgChans, maxMs, fgLeft,
                   unavailLeft, outVars>>
    /\ UNCHANGED auxVars

\* respCh <- response in the callback, then hasProgress = true.
FwSend(r) ==
    /\ r.pc = "send"
    /\ Len(fgRespCh.buf) < fgChanCap
    /\ fgRespCh' = [fgRespCh EXCEPT !.buf = Append(@, r.pend)]
    /\ fw' = FwStep(r, [r EXCEPT !.pc = "recv", !.pend = NoResp, !.hasProgress = TRUE])
    /\ UNCHANGED <<brVars, treeVars, pushVars, fgCtl, dispatcher, retry, fgErrCh,
                   maxMs, fgLeft, unavailLeft, outVars>>
    /\ UNCHANGED auxVars

\* A worker that stores its hint in max.ms without comparing.
FwRetLastHint(r) ==
    /\ r.pc = "ret"
    /\ IF r.err # "nil"
       THEN /\ Len(fgErrCh) < fgChanCap
            /\ fgErrCh' = Append(fgErrCh, r.err)
            /\ fw' = FwStep(r, [FwIdle EXCEPT !.pc = "exit"])
            /\ UNCHANGED maxMs
       ELSE /\ maxMs' = IF r.hint # 0 THEN r.hint ELSE maxMs
            /\ fw' = FwStep(r, FwIdle)
            /\ UNCHANGED fgErrCh
    /\ UNCHANGED <<brVars, treeVars, pushVars, fgCtl, dispatcher, retry, fgRespCh,
                   fgLeft, unavailLeft, outVars>>
    /\ UNCHANGED auxVars

\* The worker's loop after handleFineGrained: an error goes to errCh and the
\* worker leaves; a hint raises max.ms under the mutex.
FwRet(r) ==
    /\ r.pc = "ret"
    /\ IF r.err # "nil"
       THEN /\ Len(fgErrCh) < fgChanCap
            /\ fgErrCh' = Append(fgErrCh, r.err)
            /\ fw' = FwStep(r, [FwIdle EXCEPT !.pc = "exit"])
            /\ UNCHANGED maxMs
       ELSE /\ maxMs' = IF r.hint # 0 /\ maxMs < r.hint THEN r.hint ELSE maxMs
            /\ fw' = FwStep(r, FwIdle)
            /\ UNCHANGED fgErrCh
    /\ UNCHANGED <<brVars, treeVars, pushVars, fgCtl, dispatcher, retry, fgRespCh,
                   fgLeft, unavailLeft, outVars>>
    /\ UNCHANGED auxVars

(***************************************************************************)
(* BackupRange, after fineGrainedBackup: the RangeUnit tick, the walk of   *)
(* the tree in ascending order with one Send per range, and the return.    *)
(***************************************************************************)
BrAfterFg ==
    /\ brPc = "fineGrained"
    /\ fgPc = "returned"
    /\ IF fgErr # "nil"
       THEN /\ BrReturn(fgErr)
            /\ UNCHANGED progress
       ELSE /\ progress' = Append(progress, "range")
            /\ brPc' = "ascend"
            /\ UNCHANGED <<brErr, failureUnits>>
    /\ UNCHANGED <<allStores, treeVars, pushVars, fgVars, emitted, bsErr>>
    /\ UNCHANGED auxVars

\* results.Ascend: the ranges in ascending order of their start key.
Ascend(t) == SortByStart(t)

\* A walk that does not stop at a failed Send.
BrAscendGoesOn ==
    /\ brPc = "ascend"
    /\ IF Len(emitted) < Len(Ascend(results))
       THEN \E ok \in BOOLEAN :
               /\ emitted' = Append(emitted,
                                [rg |-> Ascend(results)[Len(emitted) + 1], ok |-> ok])
               /\ UNCHANGED brVars
       ELSE /\ BrReturn(IF \A i \in 1..Len(emitted) : emitted[i].ok
                        THEN "nil" ELSE "metaWriter")
            /\ UNCHANGED <<allStores, emitted>>
    /\ UNCHANGED <<treeVars, pushVars, fgVars, progress, bsErr>>
    /\ UNCHANGED auxVars

BrAscend ==
    /\ brPc = "ascend"
    /\ IF Len(emitted) < Len(Ascend(results))
       THEN \E ok \in BOOLEAN :
               /\ emitted' = Append(emitted,
                                [rg |-> Ascend(results)[Len(emitted) + 1], ok |-> ok])
               /\ IF ok THEN UNCHANGED brVars
                        ELSE BrReturn("metaWriter") /\ UNCHANGED allStores
       ELSE /\ BrReturn("nil")
            /\ UNCHANGED <<allStores, emitted>>
    /\ UNCHANGED <<treeVars, pushVars, fgVars, progress, bsErr>>
    /\ UNCHANGED auxVars

\* BackupRanges with this one range: eg.Wait() returns the range's error.
BackupRangesReturn ==
    /\ brPc = "done"
    /\ bsErr = "running"
    /\ bsErr' = brErr
    /\ UNCHANGED <<brVars, treeVars, pushVars, fgVars, progress, emitted>>
    /\ UNCHANGED auxVars

Next ==
    \/ BrGetStores
    \/ PushSpawn
    \/ PushStartSelect
    \/ \E s \in Stores : PwOpen(s) \/ PwRecv(s) \/ PwSend(s)
    \/ PushWaiter
    \/ PushSelectDone
    \/ PushSelectResp
    \/ PushSelectErr
    \/ BrAfterPush
    \/ FgCheck
    \/ FgDispatch
    \/ FgDispatchClose
    \/ FgSelectErr
    \/ FgSelectResp
    \/ FgSelectClosed
    \/ FgBackoff
    \/ \E r \in BagToSet(fw) : FwTake(r) \/ FwHandle(r) \/ FwOpen(r) \/ FwRecv(r)
                                  \/ FwSend(r) \/ FwRet(r)
    \/ BrAfterFg
    \/ BrAscend
    \/ BackupRangesReturn

Spec == Init /\ [][Next]_vars

(***************************************************************************)
(* One handleFineGrained call, observed: a worker hw of the first          *)
(* iteration handles the incomplete range of the tree against a store that *)
(* may answer with any interval, and the supervisor of the iteration       *)
(* takes what the call forwards.  hLog records what Recv returned, what    *)
(* the callback was called with, and what the transport did.               *)
(***************************************************************************)
MaxHfResp == 2

\* The intervals a store may answer with, past the end of the user range too.
AnswerKeys == StartKey..(EndKey + 1)
AnswerIntervals == {iv \in [StartKey : AnswerKeys, EndKey : AnswerKeys] :
                        iv.StartKey < iv.EndKey}

\* The trees phase 1 may have left with one incomplete range.
HandleTrees ==
    {{}} \cup {{[StartKey |-> iv.StartKey, EndKey |-> iv.EndKey, Files |-> <<LeaderStore>>]} :
                  iv \in {x \in Intervals : x.StartKey # StartKey \/ x.EndKey # EndKey}}

InitHandle ==
    /\ brPc = "fineGrained"
    /\ brErr = "nil"
    /\ allStores = 0
    /\ results \in HandleTrees
    /\ resultErrs = {}
    /\ pushPc = "returned"
    /\ pushErr = "nil"
    /\ spawned = 0
    /\ pw = [s \in Stores |-> PwIdle]
    /\ pushLeft = 0
    /\ respCh = <<>>
    /\ errCh = <<>>
    /\ doneCh = FALSE
    /\ waiter = "none"
    /\ failureUnits = {}
    /\ fgPc = "select"
    /\ fgErr = "nil"
    /\ iter = 1
    /\ incomplete = GetIncompleteRange(results, StartKey, EndKey)
    /\ dispatcher = [pc |-> "wait", next |-> Len(incomplete) + 1]
    /\ retry = [buf |-> <<>>, closed |-> TRUE]
    /\ fgRespCh = [buf |-> <<>>, closed |-> FALSE]
    /\ fgErrCh = <<>>
    /\ maxMs = 0
    /\ fw = [r \in {[FwIdle EXCEPT !.pc = "exit"]} |-> fgWorkers - 1]
    /\ totalSleep = 0
    /\ fgLeft = 0
    /\ unavailLeft = 0
    /\ progress = <<>>
    /\ emitted = <<>>
    /\ bsErr = "running"
    /\ mutators = {}
    /\ hw = [FwIdle EXCEPT !.pc = "handle", !.rg = incomplete[1]]
    /\ hLog = NoLog
    /\ eg = NoGroup
    /\ getTS = NoCall
    /\ target = NoTarget

\* findRegionLeader and GetBackupClient.
HfHandle ==
    /\ hw.pc = "handle"
    /\ \E lookups \in LookupScripts, client \in {"ok", "ErrFailedToConnect", "ErrUnknown"} :
            hw' = handleStart(hw, lookups, client)
    /\ UNCHANGED <<coreVars, hLog>>
    /\ UNCHANGED <<eg, startVars>>

\* The head of backupLoop and client.Backup.
HfOpen ==
    /\ hw.pc = "open"
    /\ \E outcome \in {"ok", "Unavailable", "Unknown"}, reset \in ResetOutcomes :
        /\ outcome # "Unavailable" => reset = "ok"
        /\ hw' = sendOpen(hw, outcome, reset)
        /\ hLog' = IF hw'.opens = hw.opens THEN hLog
                   ELSE [hLog EXCEPT
                           !.unavail = IF outcome = "Unavailable" THEN @ + 1 ELSE @,
                           !.transport = @ \/ outcome = "Unknown"]
    /\ UNCHANGED coreVars
    /\ UNCHANGED <<eg, startVars>>

\* bcli.Recv(): a response, io.EOF, Unavailable or another error.
HfRecv ==
    /\ hw.pc = "recv"
    /\ \/ /\ Len(hLog.recvd) < MaxHfResp
          /\ \E iv \in AnswerIntervals, e \in FgErrors :
                /\ e # ErrNone => (iv.StartKey = hw.rg.StartKey /\ iv.EndKey = hw.rg.EndKey)
                /\ hw' = [hw EXCEPT !.pc = "callback",
                              !.pend = mkResp(iv, e, IF e = ErrNone THEN <<hw.store>> ELSE <<>>)]
                /\ hLog' = [hLog EXCEPT !.recvd = Append(@, e)]
       \/ /\ hw' = handleAfterSend(hw, "nil")
          /\ hLog' = [hLog EXCEPT !.eof = TRUE]
       \/ /\ \E reset \in ResetOutcomes : hw' = sendRetry(hw, reset)
          /\ hLog' = [hLog EXCEPT !.unavail = @ + 1]
       \/ /\ hw' = handleAfterSend(hw, "ErrFailedToConnect")
          /\ hLog' = [hLog EXCEPT !.transport = TRUE]
    /\ UNCHANGED coreVars
    /\ UNCHANGED <<eg, startVars>>

\* respFn(resp): the classifier, then the callback's own steps.
HfCallback ==
    /\ hw.pc = "callback"
    /\ \E lock \in LockOutcomes :
        /\ ~hw.pend.Error.Locked => lock = [ms |-> 0, err |-> FALSE]
        /\ LET c == OnBackupResponse(hw.pend, lock)
           IN /\ hw' = respFn([hw EXCEPT !.pc = "recv", !.pend = NoResp], c)
              /\ hLog' = [hLog EXCEPT
                            !.called = Append(@, hw.pend.Error),
                            !.hints = IF c.err = "nil" THEN Append(@, c.backoffMs) ELSE @,
                            !.cbErr = IF @ # "nil" THEN @ ELSE c.err]
    /\ UNCHANGED coreVars
    /\ UNCHANGED <<eg, startVars>>

\* respCh <- response in the callback, then hasProgress = true.
HfSend ==
    /\ hw.pc = "send"
    /\ Len(fgRespCh.buf) < fgChanCap
    /\ fgRespCh' = [fgRespCh EXCEPT !.buf = Append(@, hw.pend)]
    /\ hw' = [hw EXCEPT !.pc = "recv", !.pend = NoResp, !.hasProgress = TRUE]
    /\ UNCHANGED <<brVars, treeVars, pushVars, fgCtl, dispatcher, retry, fgErrCh,
                   fgWork, outVars, hLog>>
    /\ UNCHANGED <<eg, startVars>>

NextHandle ==
    \/ HfHandle
    \/ HfOpen
    \/ HfRecv
    \/ HfCallback
    \/ HfSend
    \/ FgSelectResp

SpecHandle == InitHandle /\ [][NextHandle]_vars

(***************************************************************************)
(* findRegionLeader, observed: hLog.lookups is what the successive         *)
(* GetRegion calls would return, one more than the loop can ask for, and   *)
(* the worker hw then runs handleFineGrained up to the call of SendBackup. *)
(***************************************************************************)
\* What GetRegion may return: an error, no region, a region without a
\* leader, a region whose leader is on store s.
LookupResults ==
    {Lookup("err", 0), Lookup("nil", 0), Lookup("noLeader", 0)}
        \cup {Lookup("leader", s) : s \in Stores}

MaxLookups == leaderLookups + 1

InitLeader ==
    /\ InitCore
    /\ hw = [FwIdle EXCEPT !.pc = "handle",
                           !.rg = [StartKey |-> StartKey, EndKey |-> EndKey]]
    /\ hLog = NoLog
    /\ eg = NoGroup
    /\ getTS = NoCall
    /\ target = NoTarget

LdLookup ==
    /\ hw.pc = "handle"
    /\ Len(hLog.lookups) < MaxLookups
    /\ \E l \in LookupResults : hLog' = [hLog EXCEPT !.lookups = Append(@, l)]
    /\ UNCHANGED <<coreVars, hw>>
    /\ UNCHANGED <<eg, startVars>>

LdFind ==
    /\ hw.pc = "handle"
    /\ Len(hLog.lookups) = MaxLookups
    /\ hw' = handleStart(hw, hLog.lookups, "ok")
    /\ UNCHANGED <<coreVars, hLog>>
    /\ UNCHANGED <<eg, startVars>>

NextLeader ==
    \/ LdLookup
    \/ LdFind

SpecLeader == InitLeader /\ [][NextLeader]_vars

(***************************************************************************)
(* One iteration of fineGrainedBackup with several incomplete ranges: the  *)
(* range is [0, 2n-1) and the tree holds its n-1 odd cells, so that the n  *)
(* even cells are incomplete.  The 4 workers take the ranges as they come; *)
(* each handleFineGrained call returns one of the hints it can return, and *)
(* hLog.hints records them in the order of the calls.                      *)
(***************************************************************************)
MaxRanges == 3

IterTree(n) ==
    {[StartKey |-> 2 * i - 1, EndKey |-> 2 * i, Files |-> <<LeaderStore>>] : i \in 1..(n - 1)}

\* The hints handleFineGrained returns with a nil error.
HandleHints == {0, LockMs, regionBackoffMs, storageBackoffMs, noProgressBackoffMs,
                failedToConnectBackoffMs}

InitIter ==
    /\ brPc = "fineGrained"
    /\ brErr = "nil"
    /\ allStores = 0
    /\ \E n \in 1..MaxRanges :
          /\ results = IterTree(n)
          /\ incomplete = GetIncompleteRange(results, 0, 2 * n - 1)
    /\ resultErrs = {}
    /\ pushPc = "returned"
    /\ pushErr = "nil"
    /\ spawned = 0
    /\ pw = [s \in Stores |-> PwIdle]
    /\ pushLeft = 0
    /\ respCh = <<>>
    /\ errCh = <<>>
    /\ doneCh = FALSE
    /\ waiter = "none"
    /\ failureUnits = {}
    /\ fgPc = "select"
    /\ fgErr = "nil"
    /\ iter = 1
    /\ dispatcher = [pc |-> "send", next |-> 1]
    /\ retry = [buf |-> <<>>, closed |-> FALSE]
    /\ fgRespCh = [buf |-> <<>>, closed |-> FALSE]
    /\ fgErrCh = <<>>
    /\ maxMs = 0
    /\ fw = FwStart
    /\ totalSleep = 0
    /\ fgLeft = 0
    /\ unavailLeft = 0
    /\ progress = <<>>
    /\ emitted = <<>>
    /\ bsErr = "running"
    /\ mutators = {}
    /\ hw = FwIdle
    /\ hLog = NoLog
    /\ eg = NoGroup
    /\ getTS = NoCall
    /\ target = NoTarget

\* backoffMs, err := bc.handleFineGrained(...), without an error.
ItHandle(r) ==
    /\ r.pc = "handle"
    /\ \E hint \in HandleHints :
          /\ fw' = FwStep(r, FwReturns(r, hint, "nil"))
          /\ hLog' = [hLog EXCEPT !.hints = Append(@, hint)]
    /\ UNCHANGED <<brVars, treeVars, pushVars, fgCtl, fgChans, maxMs, fgLeft,
                   unavailLeft, outVars, hw>>
    /\ UNCHANGED <<eg, startVars>>

NextIter ==
    \/ FgDispatch
    \/ FgDispatchClose
    \/ \E r \in BagToSet(fw) : FwTake(r) \/ ItHandle(r) \/ FwRet(r)
    \/ FgSelectClosed
    \/ FgBackoff

SpecIter == InitIter /\ [][NextIter]_vars

(***************************************************************************)
(* fineGrainedBackup over many iterations: phase 1 left the tree empty and *)
(* no store makes progress, so that every iteration hands out the whole    *)
(* range, its handleFineGrained call returns one of the hints it can       *)
(* return, and step 3 backs off until the budget of the backoffer is used. *)
(***************************************************************************)
MaxBudgetIter == 6

InitBudget ==
    /\ brPc = "fineGrained"
    /\ brErr = "nil"
    /\ allStores = 0
    /\ results = {}
    /\ resultErrs = {}
    /\ pushPc = "returned"
    /\ pushErr = "nil"
    /\ spawned = 0
    /\ pw = [s \in Stores |-> PwIdle]
    /\ pushLeft = 0
    /\ respCh = <<>>
    /\ errCh = <<>>
    /\ doneCh = FALSE
    /\ waiter = "none"
    /\ failureUnits = {}
    /\ fgPc = "check"
    /\ fgErr = "nil"
    /\ iter = 0
    /\ incomplete = <<>>
    /\ dispatcher = [pc |-> "none", next |-> 1]
    /\ retry = [buf |-> <<>>, closed |-> FALSE]
    /\ fgRespCh = [buf |-> <<>>, closed |-> FALSE]
    /\ fgErrCh = <<>>
    /\ maxMs = 0
    /\ fw = FwStart
    /\ totalSleep = 0
    /\ fgLeft = 0
    /\ unavailLeft = 0
    /\ progress = <<>>
    /\ emitted = <<>>
    /\ bsErr = "running"
    /\ mutators = {}
    /\ hw = FwIdle
    /\ hLog = NoLog
    /\ eg = NoGroup
    /\ getTS = NoCall
    /\ target = NoTarget

BgCheck == FgCheckUpTo(MaxBudgetIter)

\* backoffMs, err := bc.handleFineGrained(...), without an error or a response.
BgHandle(r) ==
    /\ r.pc = "handle"
    /\ \E hint \in HandleHints : fw' = FwStep(r, FwReturns(r, hint, "nil"))
    /\ UNCHANGED <<brVars, treeVars, pushVars, fgCtl, fgChans, maxMs, fgLeft,
                   unavailLeft, outVars, auxVars>>

NextBudget ==
    \/ BgCheck
    \/ FgDispatch
    \/ FgDispatchClose
    \/ \E r \in BagToSet(fw) : FwTake(r) \/ BgHandle(r) \/ FwRet(r)
    \/ FgSelectClosed
    \/ FgBackoff
    \/ BrAfterFg

SpecBudget == InitBudget /\ [][NextBudget]_vars

(***************************************************************************)
(* OnBackupResponse, observed: one response, of any shape its Error can    *)
(* take, is classified MaxApply times; hLog.out records what the lock      *)
(* resolver returned to each call and what the call returned.              *)
(***************************************************************************)
MaxApply == 2

\* Every Error a response can carry: none, a KV error with or without lock
\* information, a region error with any fields set, a cluster-ID error, and
\* an error without detail; each with either kind of message.
AllErrors ==
    {ErrNone}
      \cup {mkErr("KvError", l, {}, m) : l \in BOOLEAN, m \in BOOLEAN}
      \cup {mkErr("RegionError", FALSE, R, m) : R \in SUBSET RegionFields, m \in BOOLEAN}
      \cup {mkErr("ClusterIdError", FALSE, {}, m) : m \in BOOLEAN}
      \cup {mkErr("other", FALSE, {}, m) : m \in BOOLEAN}

\* What ResolveLocks may return, an expiry that is already past among them.
ResolverOutcomes == LockOutcomes \cup {[ms |-> 0 - LockMs, err |-> FALSE]}

InitClassify ==
    /\ InitCore
    /\ \E e \in AllErrors :
          hw = [FwIdle EXCEPT !.pc = "classify", !.store = LeaderStore,
                   !.pend = mkResp([StartKey |-> StartKey, EndKey |-> EndKey], e,
                                   IF e = ErrNone THEN <<LeaderStore>> ELSE <<>>)]
    /\ hLog = NoLog
    /\ eg = NoGroup
    /\ getTS = NoCall
    /\ target = NoTarget

ClApply ==
    /\ hw.pc = "classify"
    /\ Len(hLog.out) < MaxApply
    /\ \E lock \in ResolverOutcomes :
          /\ ~hw.pend.Error.Locked => lock = [ms |-> 0, err |-> FALSE]
          /\ hLog' = [hLog EXCEPT !.out = Append(@,
                          [lock |-> lock, c |-> OnBackupResponse(hw.pend, lock)])]
    /\ UNCHANGED <<coreVars, hw>>
    /\ UNCHANGED <<eg, startVars>>

NextClassify == ClApply

SpecClassify == InitClassify /\ [][NextClassify]_vars

(***************************************************************************)
(* BackupRanges with several ranges: the loop hands each range to the      *)
(* worker pool as a task of the error group; a task runs BackupRange with  *)
(* the group's context and returns nil or the error of its range.  The     *)
(* group keeps the first error it is given and cancels its context then;   *)
(* eg.order is the order in which the ranges failed.                       *)
(***************************************************************************)
MaxTasks == 3
MaxConcurrency == 2

\* ectx, the context BackupRange is called with: cancelled or not.
rangeCtx(g) == g.cancelled

InitRanges ==
    /\ InitCore
    /\ hw = FwIdle
    /\ hLog = NoLog
    /\ \E n \in 1..MaxTasks, c \in 1..MaxConcurrency :
          eg = [NoGroup EXCEPT
                  !.tasks = [i \in 1..n |-> [pc |-> "queued", err |-> 0, ctx |-> FALSE]],
                  !.free = c]
    /\ getTS = NoCall
    /\ target = NoTarget

\* for _, r := range ranges: ApplyOnErrorGroup waits for a worker of the pool
\* and starts the task.
RgApply ==
    /\ eg.next <= Len(eg.tasks)
    /\ eg.free > 0
    /\ eg' = [eg EXCEPT !.tasks[eg.next] = [pc |-> "running", err |-> 0, ctx |-> rangeCtx(eg)],
                        !.free = @ - 1,
                        !.next = @ + 1]
    /\ UNCHANGED <<coreVars, hw, hLog, startVars>>

\* A group in which the last error given replaces the earlier ones.
RgReturnLastWins(i) ==
    /\ i \in 1..Len(eg.tasks)
    /\ eg.tasks[i].pc = "running"
    /\ \E err \in {0, i} :
          eg' = [eg EXCEPT !.tasks[i] = [@ EXCEPT !.pc = "done", !.err = err],
                           !.free = @ + 1,
                           !.err = IF err # 0 THEN err ELSE @,
                           !.cancelled = @ \/ err # 0,
                           !.order = IF err # 0 THEN Append(@, i) ELSE @]
    /\ UNCHANGED <<coreVars, hw, hLog, startVars>>

\* The task of range i: BackupRange returns, and its error, if any, goes to
\* the group, which keeps it and cancels the context if it is the first.
RgReturn(i) ==
    /\ i \in 1..Len(eg.tasks)
    /\ eg.tasks[i].pc = "running"
    /\ \E err \in {0, i} :
          eg' = [eg EXCEPT !.tasks[i] = [@ EXCEPT !.pc = "done", !.err = err],
                           !.free = @ + 1,
                           !.err = IF err # 0 /\ @ = 0 THEN err ELSE @,
                           !.cancelled = @ \/ err # 0,
                           !.order = IF err # 0 THEN Append(@, i) ELSE @]
    /\ UNCHANGED <<coreVars, hw, hLog, startVars>>

\* return eg.Wait()
RgWait ==
    /\ ~eg.waited
    /\ eg.next > Len(eg.tasks)
    /\ \A i \in 1..Len(eg.tasks) : eg.tasks[i].pc = "done"
    /\ eg' = [eg EXCEPT !.waited = TRUE, !.ret = eg.err, !.cancelled = TRUE]
    /\ UNCHANGED <<coreVars, hw, hLog, startVars>>

NextRanges ==
    \/ RgApply
    \/ \E i \in 1..MaxTasks : RgReturn(i)
    \/ RgWait

SpecRanges == InitRanges /\ [][NextRanges]_vars

(***************************************************************************)
(* Client.GetTS on its own: one call with its arguments, the answer of the *)
(* placement driver and the GC safe point.  Timestamps are TsBits wide     *)
(* (64 in the program) with LogicalBits for the logical counter (18), and  *)
(* a duration counts units of which SubMs make a millisecond (1e6).        *)
(***************************************************************************)
TsBits == 6
LogicalBits == 2
SubMs == 2
MaxPhysical == 3
MaxAgo == 9
MaxTs == 5
MaxSafePoint == 9

\* uint64(x)
Uint(x) == x % (2 ^ TsBits)

\* Go's integer division, which truncates towards zero.
GoDiv(a, b) == IF a >= 0 THEN a \div b ELSE 0 - ((0 - a) \div b)

\* oracle.ComposeTS(physical, logical) = uint64((physical << 18) + logical)
ComposeTS(physical, logical) == Uint(physical * (2 ^ LogicalBits) + logical)

\* oracle.GetTimeFromTS(ts): the time of the physical part, in duration units.
GetTimeFromTS(ts) == (ts \div (2 ^ LogicalBits)) * SubMs

\* oracle.GetPhysical(t) = t.UnixNano() / int64(time.Millisecond)
GetPhysical(t) == GoDiv(t, SubMs)

\* A GetTS that recomposes the timestamp without the overflow check.
timeAgoUnchecked(p, l, duration) ==
    IF duration < 0 THEN [err |-> "InvalidArgument", ts |-> 0]
    ELSE IF duration > 0
    THEN [err |-> "nil",
          ts |-> ComposeTS(GetPhysical(GetTimeFromTS(ComposeTS(p, l)) - duration), l)]
    ELSE [err |-> "nil", ts |-> ComposeTS(p, l)]

\* GetTS with ts = 0, after the placement driver answered (p, l): the switch
\* on duration and the timestamp it gives.
timeAgo(p, l, duration) ==
    LET backupTS == ComposeTS(p, l)
        backupAgo == GetTimeFromTS(backupTS) - duration
        ago == ComposeTS(GetPhysical(backupAgo), l)
    IN IF duration < 0 THEN [err |-> "InvalidArgument", ts |-> 0]
       ELSE IF duration > 0
       THEN IF backupTS < ago THEN [err |-> "InvalidArgument", ts |-> 0]
                              ELSE [err |-> "nil", ts |-> ago]
       ELSE [err |-> "nil", ts |-> backupTS]

\* utils.CheckGCSafePoint: fails when the timestamp is older than the safe
\* point.
CheckGCSafePoint(ts, safePoint) ==
    IF ts < safePoint THEN "GCSafepointExceeded" ELSE "nil"

GtReturn(c, ret, err) == [c EXCEPT !.pc = "done", !.ret = ret, !.err = err]

InitTS ==
    /\ InitCore
    /\ hw = FwIdle
    /\ hLog = NoLog
    /\ eg = NoGroup
    /\ target = NoTarget
    /\ \E ts \in 0..MaxTs, d \in (0 - 1)..MaxAgo, sp \in 0..MaxSafePoint :
          getTS = [NoCall EXCEPT !.pc = "start", !.ts = ts, !.duration = d,
                                 !.safePoint = sp]

\* GetTS up to the safe-point check: the explicit ts, or the timestamp of
\* the placement driver moved back by duration.
GtCompute ==
    /\ getTS.pc = "start"
    /\ IF getTS.ts > 0
       THEN getTS' = [getTS EXCEPT !.pc = "check", !.backupTS = getTS.ts]
       ELSE \E p \in 0..MaxPhysical, l \in 0..(2 ^ LogicalBits - 1), pdErr \in BOOLEAN :
               LET c == [getTS EXCEPT !.pdReads = @ + 1, !.pdP = p, !.pdL = l,
                                      !.pdErr = pdErr]
                   r == timeAgo(p, l, getTS.duration)
               IN getTS' = IF pdErr THEN GtReturn(c, 0, "pd")
                           ELSE IF r.err # "nil" THEN GtReturn(c, 0, r.err)
                           ELSE [c EXCEPT !.pc = "check", !.backupTS = r.ts]
    /\ UNCHANGED <<coreVars, hw, hLog, eg, target>>

\* A GetTS that returns the timestamp without the safe-point check.
GtCheckNoSafePoint ==
    /\ getTS.pc = "check"
    /\ getTS' = GtReturn(getTS, getTS.backupTS, "nil")
    /\ UNCHANGED <<coreVars, hw, hLog, eg, target>>

\* err = utils.CheckGCSafePoint(...); return backupTS, nil
GtCheck ==
    /\ getTS.pc = "check"
    /\ LET err == CheckGCSafePoint(getTS.backupTS, getTS.safePoint)
       IN getTS' = IF err # "nil" THEN GtReturn(getTS, 0, err)
                                  ELSE GtReturn(getTS, getTS.backupTS, "nil")
    /\ UNCHANGED <<coreVars, hw, hLog, eg, target>>

NextTS ==
    \/ GtCompute
    \/ GtCheck

SpecTS == InitTS /\ [][NextTS]_vars

(***************************************************************************)
(* The storage target: HdfsStorage.WriteFile, ReadFile and FileExists.     *)
(* WriteFile exists in two forms: after removing an existing file, one     *)
(* returns and the other goes on to create and write the file.             *)
(***************************************************************************)
MetaFile == "backupmeta"
LockFile == "backup.lock"
FileNames == {MetaFile, LockFile}

\* The content of a name that has no file, and the contents a file may have.
NoFile == "none"
LockText == "DO NOT DELETE"
Contents == {"", "old", "new", LockText}

\* A call of WriteFile(name, data): its position and the error it returned.
NoWrite == [pc |-> "none", name |-> LockFile, data |-> "", err |-> "nil"]
WriteCall(name, data) == [pc |-> "exists", name |-> name, data |-> data, err |-> "nil"]
WfReturn(w, err) == [w EXCEPT !.pc = "returned", !.err = err]

\* One step of WriteFile on the files f: the files and the call after it,
\* for each thing the file system may answer.  FileExists (Stat) fails or
\* tells whether the file is there; Remove fails or removes the file, after
\* which the first form returns Remove's nil; Create fails, as it does when
\* the file is there, or creates an empty file; Write fails or stores data.
WriteFile(f, rewrites, w) ==
    IF w.pc = "exists"
    THEN {<<f, WfReturn(w, "stat")>>,
          <<f, [w EXCEPT !.pc = IF f[w.name] # NoFile THEN "remove" ELSE "create"]>>}
    ELSE IF w.pc = "remove"
    THEN {<<f, WfReturn(w, "remove")>>}
         \cup (IF f[w.name] # NoFile
               THEN {<<[f EXCEPT ![w.name] = NoFile],
                       IF rewrites THEN [w EXCEPT !.pc = "create"]
                                   ELSE WfReturn(w, "nil")>>}
               ELSE {})
    ELSE IF w.pc = "create"
    THEN {<<f, WfReturn(w, "create")>>}
         \cup (IF f[w.name] = NoFile
               THEN {<<[f EXCEPT ![w.name] = ""], [w EXCEPT !.pc = "write"]>>}
               ELSE {})
    ELSE IF w.pc = "write"
    THEN {<<f, WfReturn(w, "write")>>}
         \cup (IF f[w.name] # NoFile
               THEN {<<[f EXCEPT ![w.name] = w.data], WfReturn(w, "nil")>>}
               ELSE {})
    ELSE {}

\* ReadFile(name): the content, or an error when there is no file.
ReadFile(f, name) ==
    IF f[name] = NoFile THEN [data |-> NoFile, err |-> "notExist"]
                        ELSE [data |-> f[name], err |-> "nil"]

(***************************************************************************)
(* Clients starting a backup on one target: SetStorage, then SetLockFile.  *)
(***************************************************************************)
NClients == 2
Clients == 1..NClients

\* A client before SetStorage: bc.storage and bc.backend as they were.
NewClient == [pc |-> "new", storage |-> FALSE, backend |-> "before",
              sawMeta |-> "unknown", sawLock |-> "unknown",
              setErr |-> "running", w |-> NoWrite]

SsReturn(c, err) == [c EXCEPT !.pc = IF err = "nil" THEN "ready" ELSE "failed",
                              !.setErr = err]

InitStart ==
    /\ InitCore
    /\ hw = FwIdle
    /\ hLog = NoLog
    /\ eg = NoGroup
    /\ getTS = NoCall
    /\ \E present \in SUBSET FileNames, rewrites \in BOOLEAN :
          target = [files |-> [n \in FileNames |-> IF n \in present THEN "old" ELSE NoFile],
                    rewrites |-> rewrites,
                    clients |-> [i \in Clients |-> NewClient],
                    w |-> NoWrite,
                    read |-> <<>>]

\* bc.storage, err = storage.New(...)
SsNew(i) ==
    /\ target.clients[i].pc = "new"
    /\ \E ok \in BOOLEAN :
          target' = [target EXCEPT !.clients[i] =
                        IF ok THEN [@ EXCEPT !.pc = "meta", !.storage = TRUE]
                              ELSE SsReturn([@ EXCEPT !.storage = FALSE], "storage")]
    /\ UNCHANGED <<coreVars, hw, hLog, eg, getTS>>

\* A SetStorage that does not look for the metadata file.
SsMetaNotChecked(i) ==
    /\ target.clients[i].pc = "meta"
    /\ target' = [target EXCEPT !.clients[i] = [@ EXCEPT !.pc = "lock", !.sawMeta =
                      IF target.files[MetaFile] # NoFile THEN "present" ELSE "absent"]]
    /\ UNCHANGED <<coreVars, hw, hLog, eg, getTS>>

\* exist, err := bc.storage.FileExists(ctx, metautil.MetaFile)
SsMeta(i) ==
    /\ target.clients[i].pc = "meta"
    /\ \E ok \in BOOLEAN :
          target' = [target EXCEPT !.clients[i] =
                        IF ~ok THEN SsReturn([@ EXCEPT !.sawMeta = "error"], "check")
                        ELSE IF target.files[MetaFile] # NoFile
                        THEN SsReturn([@ EXCEPT !.sawMeta = "present"], "InvalidArgument")
                        ELSE [@ EXCEPT !.pc = "lock", !.sawMeta = "absent"]]
    /\ UNCHANGED <<coreVars, hw, hLog, eg, getTS>>

\* exist, err = bc.storage.FileExists(ctx, metautil.LockFile), and
\* bc.backend = backend when the file is not there.
SsLock(i) ==
    /\ target.clients[i].pc = "lock"
    /\ \E ok \in BOOLEAN :
          target' = [target EXCEPT !.clients[i] =
                        IF ~ok THEN SsReturn([@ EXCEPT !.sawLock = "error"], "check")
                        ELSE IF target.files[LockFile] # NoFile
                        THEN SsReturn([@ EXCEPT !.sawLock = "present"], "InvalidArgument")
                        ELSE SsReturn([@ EXCEPT !.sawLock = "absent", !.backend = "given"],
                                      "nil")]
    /\ UNCHANGED <<coreVars, hw, hLog, eg, getTS>>

\* SetLockFile: bc.storage.WriteFile(ctx, metautil.LockFile, ...), entered.
SlStart(i) ==
    /\ target.clients[i].pc = "ready"
    /\ target' = [target EXCEPT !.clients[i] =
                     [@ EXCEPT !.pc = "locking", !.w = WriteCall(LockFile, LockText)]]
    /\ UNCHANGED <<coreVars, hw, hLog, eg, getTS>>

\* SetLockFile: one step of WriteFile, and the return with its error.
SlWrite(i) ==
    /\ target.clients[i].pc = "locking"
    /\ \E out \in WriteFile(target.files, target.rewrites, target.clients[i].w) :
          target' = [target EXCEPT
                        !.files = out[1],
                        !.clients[i] = [@ EXCEPT !.w = out[2],
                                                 !.pc = IF out[2].pc # "returned" THEN "locking"
                                                        ELSE IF out[2].err = "nil" THEN "started"
                                                        ELSE "failed"]]
    /\ UNCHANGED <<coreVars, hw, hLog, eg, getTS>>

NextStart ==
    \E i \in Clients : SsNew(i) \/ SsMeta(i) \/ SsLock(i) \/ SlStart(i) \/ SlWrite(i)

SpecStart == InitStart /\ [][NextStart]_vars

(***************************************************************************)
(* HdfsStorage on its own: WriteFile(name, data), then ReadFile(name).     *)
(***************************************************************************)
InitHdfs ==
    /\ InitCore
    /\ hw = FwIdle
    /\ hLog = NoLog
    /\ eg = NoGroup
    /\ getTS = NoCall
    /\ \E present \in SUBSET FileNames, rewrites \in BOOLEAN,
          name \in FileNames, data \in Contents :
          target = [files |-> [n \in FileNames |-> IF n \in present THEN "old" ELSE NoFile],
                    rewrites |-> rewrites,
                    clients |-> <<>>,
                    w |-> WriteCall(name, data),
                    read |-> <<>>]

\* One step of WriteFile(name, data).
FsWrite ==
    /\ target.w.pc \notin {"none", "returned"}
    /\ \E out \in WriteFile(target.files, target.rewrites, target.w) :
          target' = [target EXCEPT !.files = out[1], !.w = out[2]]
    /\ UNCHANGED <<coreVars, hw, hLog, eg, getTS>>

\* ReadFile(name), after WriteFile has returned.
FsRead ==
    /\ target.w.pc = "returned"
    /\ target.read = <<>>
    /\ target' = [target EXCEPT !.read = <<ReadFile(target.files, target.w.name)>>]
    /\ UNCHANGED <<coreVars, hw, hLog, eg, getTS>>

NextHdfs ==
    \/ FsWrite
    \/ FsRead

SpecHdfs == InitHdfs /\ [][NextHdfs]_vars

(***************************************************************************)
(* fineGrainedBackup without a bound on its iterations, with a store and a *)
(* placement driver that always answer: each handleFineGrained call gets   *)
(* one response for its sub-range, a success or a locked key for which the *)
(* resolver reports LockMs or 0 ms, and then the end of the stream.  The   *)
(* scheduler is fair: a step that can be taken is taken.                   *)
(***************************************************************************)
MaxLiveIter == 3

InitLive ==
    /\ brPc = "fineGrained"
    /\ brErr = "nil"
    /\ allStores = 0
    /\ results \in {{}, {[StartKey |-> StartKey, EndKey |-> StartKey + 1, Files |-> <<LeaderStore>>]}}
    /\ resultErrs = {}
    /\ pushPc = "returned"
    /\ pushErr = "nil"
    /\ spawned = 0
    /\ pw = [s \in Stores |-> PwIdle]
    /\ pushLeft = 0
    /\ respCh = <<>>
    /\ errCh = <<>>
    /\ doneCh = FALSE
    /\ waiter = "none"
    /\ failureUnits = {}
    /\ fgPc = "check"
    /\ fgErr = "nil"
    /\ iter = 0
    /\ incomplete = <<>>
    /\ dispatcher = [pc |-> "none", next |-> 1]
    /\ retry = [buf |-> <<>>, closed |-> FALSE]
    /\ fgRespCh = [buf |-> <<>>, closed |-> FALSE]
    /\ fgErrCh = <<>>
    /\ maxMs = 0
    /\ fw = FwStart
    /\ totalSleep = 0
    /\ fgLeft = 0
    /\ unavailLeft = 0
    /\ progress = <<>>
    /\ emitted = <<>>
    /\ bsErr = "running"
    /\ mutators = {}
    /\ hw = FwIdle
    /\ hLog = NoLog
    /\ eg = NoGroup
    /\ getTS = NoCall
    /\ target = NoTarget

\* Step 1 and the start of step 2, the iterations counted up to MaxLiveIter.
LvCheck ==
    /\ fgPc = "check"
    /\ IF FgReturnsNil(results)
       THEN /\ fgPc' = "returned"
            /\ fgErr' = "nil"
            /\ UNCHANGED <<iter, incomplete, fgChans, fgWork>>
       ELSE /\ iter' = IF iter < MaxLiveIter THEN iter + 1 ELSE iter
            /\ incomplete' = GetIncompleteRange(results, StartKey, EndKey)
            /\ retry' = [buf |-> <<>>, closed |-> FALSE]
            /\ fgRespCh' = [buf |-> <<>>, closed |-> FALSE]
            /\ fgErrCh' = <<>>
            /\ maxMs' = 0
            /\ fw' = FwStart
            /\ dispatcher' = [pc |-> "send", next |-> 1]
            /\ fgPc' = "select"
            /\ UNCHANGED <<fgErr, fgLeft, unavailLeft>>
    /\ UNCHANGED <<brVars, treeVars, pushVars, totalSleep, outVars>>
    /\ UNCHANGED auxVars

\* handleFineGrained up to the first response of the stream: the leader is
\* found, the client is there, and the callback classifies the response.
LvHandle(r) ==
    /\ r.pc = "handle"
    /\ \E ok \in BOOLEAN, lock \in {l \in LockOutcomes : ~l.err} :
          /\ ok => lock.ms = 0
          /\ fw' = FwStep(r, respFn([r EXCEPT !.pc = "recv", !.store = LeaderStore],
                        OnBackupResponse(
                            mkResp(r.rg,
                                   IF ok THEN ErrNone ELSE mkErr("KvError", TRUE, {}, FALSE),
                                   IF ok THEN <<LeaderStore>> ELSE <<>>),
                            lock)))
    /\ UNCHANGED <<brVars, treeVars, pushVars, fgCtl, fgChans, maxMs, fgLeft,
                   unavailLeft, outVars>>
    /\ UNCHANGED auxVars

\* The end of the stream: SendBackup returns nil and handleFineGrained its hint.
LvEof(r) ==
    /\ r.pc = "recv"
    /\ fw' = FwStep(r, handleAfterSend(r, "nil"))
    /\ UNCHANGED <<brVars, treeVars, pushVars, fgCtl, fgChans, maxMs, fgLeft,
                   unavailLeft, outVars>>
    /\ UNCHANGED auxVars

NextLive ==
    \/ LvCheck
    \/ FgDispatch
    \/ FgDispatchClose
    \/ \E r \in BagToSet(fw) : FwTake(r) \/ LvHandle(r) \/ FwSend(r) \/ LvEof(r) \/ FwRet(r)
    \/ FgSelectResp
    \/ FgSelectClosed
    \/ FgBackoff

SpecLive == InitLive /\ [][NextLive]_vars /\ WF_vars(NextLive)

(***************************************************************************)
(* One iteration of phase 2 that the supervisor may leave on the first     *)
(* error: each handleFineGrained call fails at once or receives successful *)
(* responses for its sub-range, MaxLeakResp in all, which it sends on      *)
(* respCh, and then the end of the stream.  The scheduler is fair.         *)
(***************************************************************************)
MaxLeakResp == 6

InitLeak ==
    /\ brPc = "fineGrained"
    /\ brErr = "nil"
    /\ allStores = 0
    /\ \E n \in 2..MaxRanges :
          /\ results = IterTree(n)
          /\ incomplete = GetIncompleteRange(results, 0, 2 * n - 1)
    /\ resultErrs = {}
    /\ pushPc = "returned"
    /\ pushErr = "nil"
    /\ spawned = 0
    /\ pw = [s \in Stores |-> PwIdle]
    /\ pushLeft = 0
    /\ respCh = <<>>
    /\ errCh = <<>>
    /\ doneCh = FALSE
    /\ waiter = "none"
    /\ failureUnits = {}
    /\ fgPc = "select"
    /\ fgErr = "nil"
    /\ iter = 1
    /\ dispatcher = [pc |-> "send", next |-> 1]
    /\ retry = [buf |-> <<>>, closed |-> FALSE]
    /\ fgRespCh = [buf |-> <<>>, closed |-> FALSE]
    /\ fgErrCh = <<>>
    /\ maxMs = 0
    /\ fw = FwStart
    /\ totalSleep = 0
    /\ fgLeft = MaxLeakResp
    /\ unavailLeft = 0
    /\ progress = <<>>
    /\ emitted = <<>>
    /\ bsErr = "running"
    /\ mutators = {}
    /\ hw = FwIdle
    /\ hLog = NoLog
    /\ eg = NoGroup
    /\ getTS = NoCall
    /\ target = NoTarget

\* handleFineGrained up to SendBackup: the client is there, or
\* GetBackupClient fails and the call returns its error.
LkHandle(r) ==
    /\ r.pc = "handle"
    /\ \E ok \in BOOLEAN :
          fw' = FwStep(r, IF ok THEN [r EXCEPT !.pc = "recv", !.store = LeaderStore]
                                ELSE FwReturns(r, 0, "ErrUnknown"))
    /\ UNCHANGED <<brVars, treeVars, pushVars, fgCtl, fgChans, maxMs, fgLeft,
                   unavailLeft, outVars>>
    /\ UNCHANGED auxVars

\* The stream: a successful response for the sub-range, which the callback
\* has to send on respCh, or the end of the stream.
LkRecv(r) ==
    /\ r.pc = "recv"
    /\ \/ /\ fgLeft > 0
          /\ fgLeft' = fgLeft - 1
          /\ fw' = FwStep(r, respFn(r, OnBackupResponse(
                        mkResp(r.rg, ErrNone, <<LeaderStore>>), [ms |-> 0, err |-> FALSE])))
       \/ /\ fw' = FwStep(r, handleAfterSend(r, "nil"))
          /\ UNCHANGED fgLeft
    /\ UNCHANGED <<brVars, treeVars, pushVars, fgCtl, fgChans, maxMs, unavailLeft, outVars>>
    /\ UNCHANGED auxVars

NextLeak ==
    \/ FgDispatch
    \/ FgDispatchClose
    \/ \E r \in BagToSet(fw) : FwTake(r) \/ LkHandle(r) \/ LkRecv(r) \/ FwSend(r) \/ FwRet(r)
    \/ FgSelectErr
    \/ FgSelectResp
    \/ FgSelectClosed
    \/ FgBackoff

SpecLeak == InitLeak /\ [][NextLeak]_vars /\ WF_vars(NextLeak)

(***************************************************************************)
(* pushBackup on its own, from newPushDown(len(allStores)) on, with stores *)
(* that stream up to MaxPushLeak responses in all.  The scheduler is fair. *)
(***************************************************************************)
MaxPushLeak == 4

InitPush ==
    /\ brPc = "push"
    /\ brErr = "nil"
    /\ allStores \in 1..NStores
    /\ results = {}
    /\ resultErrs = {}
    /\ pushPc = "spawn"
    /\ pushErr = "nil"
    /\ spawned = 0
    /\ pw = [s \in Stores |-> PwIdle]
    /\ pushLeft = MaxPushLeak
    /\ respCh = <<>>
    /\ errCh = <<>>
    /\ doneCh = FALSE
    /\ waiter = "none"
    /\ failureUnits = {}
    /\ fgPc = "idle"
    /\ fgErr = "nil"
    /\ iter = 0
    /\ incomplete = <<>>
    /\ dispatcher = [pc |-> "none", next |-> 1]
    /\ retry = [buf |-> <<>>, closed |-> FALSE]
    /\ fgRespCh = [buf |-> <<>>, closed |-> FALSE]
    /\ fgErrCh = <<>>
    /\ maxMs = 0
    /\ fw = FwStart
    /\ totalSleep = 0
    /\ fgLeft = MaxFgResp
    /\ unavailLeft = MaxUnavailable
    /\ progress = <<>>
    /\ emitted = <<>>
    /\ bsErr = "running"
    /\ mutators = {}
    /\ hw = FwIdle
    /\ hLog = NoLog
    /\ eg = NoGroup
    /\ getTS = NoCall
    /\ target = NoTarget

NextPush ==
    \/ PushSpawn
    \/ PushStartSelect
    \/ \E s \in Stores : PwOpen(s) \/ PwRecv(s) \/ PwSend(s)
    \/ PushWaiter
    \/ PushSelectDone
    \/ PushSelectResp
    \/ PushSelectErr

SpecPush == InitPush /\ [][NextPush]_vars /\ WF_vars(NextPush)

(***************************************************************************)
(* Properties.                                                             *)
(***************************************************************************)

\* C1: whenever fineGrainedBackup has returned without error, the tree has
\* no incomplete sub-range in [StartKey, EndKey): GetIncompleteRange is empty.
C1_NilReturnMeansComplete ==
    (fgPc = "returned" /\ fgErr = "nil")
        => GetIncompleteRange(results, StartKey, EndKey) = <<>>

\* fineGrainedBackup returned nil after more than one iteration.
C1_Witness ==
    /\ fgPc = "returned"
    /\ fgErr = "nil"
    /\ iter > 1
    /\ GetIncompleteRange(results, StartKey, EndKey) = <<>>

\* C2: an error a worker got from handleFineGrained makes fineGrainedBackup
\* return in the same iteration: the supervisor never leaves its select loop
\* by the closed response channel while the error waits on errCh.
C2_ErrorEndsIteration == fgPc = "backoff" => fgErrCh = <<>>

\* C3: when pushBackup has returned nil, every response a worker forwarded
\* to respCh has been consumed: none is left in the channel.
C3_NilReturnDrained == (pushPc = "returned" /\ pushErr = "nil") => respCh = <<>>

\* C4: when a store worker has reported a stream error, pushBackup does not
\* return nil: no error is left on errCh by a nil return.
C4_WorkerErrorReturned == (pushPc = "returned" /\ pushErr = "nil") => errCh = <<>>

\* C5: the supervisor of pushBackup, taking a response with a KV error or a
\* region error from respCh, records no interval: the keys covered by the
\* tree are the same after the step, so the response's range stays incomplete.
C5_ErrorResponseNotInserted ==
    [][(/\ pushPc = "select"
        /\ respCh # <<>>
        /\ respCh' = Tail(respCh)
        /\ Head(respCh).Error.Detail \in {"KvError", "RegionError"})
       => \A k \in Keys : Covered(results', k) = Covered(results, k)]_vars

\* C6: a response with a cluster-ID error that a worker forwarded makes
\* pushBackup return an error: pushBackup has not returned nil while such a
\* response is in respCh.
C6_ClusterIdAborts ==
    (pushPc = "returned"
        /\ \E i \in 1..Len(respCh) : respCh[i].Error.Detail = "ClusterIdError")
        => pushErr # "nil"

\* C7 as stated: a stream failure of a store in phase 1 does not fail the
\* range, BackupRange never returns that error.
C7_StreamErrorKeepsRange == ~(brPc = "done" /\ brErr = "stream")

\* C7, amended: a stream failure that pushBackup's select received from errCh
\* fails the range: pushBackup has returned it, the fine-grained phase never
\* starts, nothing is emitted, and BackupRange returns the error and records
\* a failure unit.
C7_StreamErrorFailsRange ==
    pushErr = "stream" =>
        /\ pushPc = "returned"
        /\ fgPc = "idle"
        /\ iter = 0
        /\ emitted = <<>>
        /\ brPc \in {"push", "done"}
        /\ brPc = "done" => (brErr = "stream" /\ FailureKey \in failureUnits)
        /\ bsErr \in {"running", "stream"}

\* BackupRange has returned the stream error of a store.
C7_Witness ==
    /\ pushErr = "stream"
    /\ brPc = "done"
    /\ brErr = "stream"
    /\ bsErr = "stream"

\* C8: the tree is mutated by BackupRange's own task only: a step that
\* changes the tree is a step of the supervisor loop of pushBackup or of
\* fineGrainedBackup taking a response from its response channel, and no
\* store worker or fine-grained worker moves in it.
C8_SingleMutator ==
    /\ [](mutators \subseteq {"BackupRange"})
    /\ [][results' # results =>
            /\ pw' = pw
            /\ fw' = fw
            /\ \/ pushPc = "select" /\ respCh # <<>> /\ respCh' = Tail(respCh)
               \/ /\ fgPc = "select"
                  /\ fgRespCh.buf # <<>>
                  /\ fgRespCh'.buf = Tail(fgRespCh.buf)]_vars

\* The supervisor loops have inserted two intervals, one of them at least in
\* the fine-grained phase.
C8_Witness ==
    /\ mutators = {"BackupRange"}
    /\ Cardinality(results) > 1
    /\ Len(progress) > 0

\* C9: the fine-grained phase runs only after pushBackup has returned nil;
\* before pushBackup returns, no fine-grained worker has moved and no store
\* has answered a fine-grained request; once the fine-grained phase has
\* started, no response is taken from pushBackup's respCh any more.
C9_PhaseOrder ==
    /\ [](fgPc # "idle" => (pushPc = "returned" /\ pushErr = "nil"))
    /\ [](pushPc # "returned" =>
            (fgPc = "idle" /\ iter = 0 /\ fw = FwStart /\ fgLeft = MaxFgResp))
    /\ [][fgPc # "idle" => (respCh' = respCh /\ pw' = pw)]_vars

\* The fine-grained phase has inserted while a response of phase 1 is still
\* in respCh.
C9_Witness ==
    /\ fgPc # "idle"
    /\ respCh # <<>>
    /\ Len(progress) > 0

\* C10: no two intervals stored in the tree overlap.
C10_NoOverlap ==
    \A r1, r2 \in results : r1 # r2 => ~Overlaps(r1, r2.StartKey, r2.EndKey)

\* The tree holds two intervals, one of them answered twice.
C10_Witness ==
    /\ Cardinality(results) > 1
    /\ \E r \in results : Len(r.Files) > 1


\* C11: every interval stored in the tree of [StartKey, EndKey) lies inside
\* [StartKey, EndKey): an answer that reaches outside the range asked for is
\* never stored as it is.
C11_StoredInsideRange ==
    \A x \in results : StartKey <= x.StartKey /\ x.EndKey <= EndKey

\* C12: one SendBackup call opens the stream at most 5 times and resets the
\* connection at most 5 times.
C12_AtMostFiveAttempts ==
    hw.opens <= backupRetryTimes /\ hw.resets <= backupRetryTimes

\* SendBackup returned after 5 opens and 5 resets.
C12_Witness ==
    hw.pc = "ret" /\ hw.opens = backupRetryTimes /\ hw.resets = backupRetryTimes

\* C13: when all 5 attempts failed with Unavailable and every reset
\* succeeded, SendBackup returns FailedToConnect, not success.
C13_ExhaustedIsFailedToConnect ==
    (hw.pc = "ret" /\ hw.retry = backupRetryTimes) => hw.callErr = "ErrFailedToConnect"

\* C14: the connection is reset once per Unavailable failure and never
\* otherwise; and when k < 5 attempts failed with Unavailable and the next one
\* ended with EOF, SendBackup returned nil after k resets and k + 1 opens, the
\* callback having been called once per response received, in order.
C14_RetryThenStream ==
    /\ hw.resets = hLog.unavail
    /\ (hw.pc = "ret" /\ hLog.eof) =>
          /\ hw.callErr = "nil"
          /\ hw.retry = hLog.unavail
          /\ hw.retry < backupRetryTimes
          /\ hw.opens = hLog.unavail + 1
          /\ hLog.called = hLog.recvd

\* Four attempts failed; the fifth delivered two responses and EOF.
C14_Witness ==
    /\ hw.pc = "ret"
    /\ hLog.eof
    /\ hLog.unavail = backupRetryTimes - 1
    /\ Len(hLog.called) = MaxHfResp

\* C15: an error of the callback ends SendBackup at once, which returns that
\* error: no later callback, no further attempt; EOF ends the retry loop, and
\* SendBackup returns nil.
C15_CallbackErrorEnds ==
    /\ [][(hw.pc = "callback" /\ hLog'.cbErr # "nil")
            => (hw'.pc = "ret" /\ hw'.callErr = hLog'.cbErr /\ hw'.opens = hw.opens)]_vars
    /\ [](hLog.cbErr # "nil" =>
            (hw.pc = "ret" /\ hw.callErr = hLog.cbErr /\ hLog.called = hLog.recvd))
    /\ [][(hw.pc = "recv" /\ hLog'.eof) => (hw'.pc = "ret" /\ hw'.callErr = "nil")]_vars

\* The callback failed on the second response of a retried stream.
C15_Witness ==
    /\ hw.pc = "ret"
    /\ hLog.cbErr = "ErrKVUnknown"
    /\ Len(hLog.called) = MaxHfResp
    /\ hw.retry > 0

\* C16, as stated: a transport error other than Unavailable makes the call
\* fail, so that fineGrainedBackup returns an error.
C16_TransportErrorFatal ==
    (hw.pc = "ret" /\ hLog.transport) => hw.err # "nil"

\* C16, amended: a transport error other than Unavailable ends SendBackup at
\* once, with FailedToConnect and without another attempt; handleFineGrained
\* returns the hint 20000 and no error for it.
C16_TransportErrorBacksOff ==
    hLog.transport =>
        /\ hw.pc = "ret"
        /\ hw.callErr = "ErrFailedToConnect"
        /\ hw.opens = hLog.unavail + 1
        /\ hw.hint = failedToConnectBackoffMs
        /\ hw.err = "nil"

\* The transport failed after a retry and a received response.
C16_Witness ==
    /\ hw.pc = "ret"
    /\ hLog.transport
    /\ hLog.recvd # <<>>
    /\ hLog.unavail > 0

C18_FirstLeaderOfFive ==
    hw.pc # "handle" =>
        LET found == {i \in 1..leaderLookups : hLog.lookups[i].kind = "leader"}
        IN IF found = {}
           THEN hw.pc = "ret" /\ hw.err = "ErrBackupNoLeader"
           ELSE /\ hw.pc = "open"
                /\ hw.err = "nil"
                /\ \E i \in found :
                      /\ \A j \in found : i <= j
                      /\ hw.store = hLog.lookups[i].store

\* NoLeader, although a sixth lookup would have found a leader.
C18_Witness ==
    /\ hw.pc = "ret"
    /\ hw.err = "ErrBackupNoLeader"
    /\ hLog.lookups[MaxLookups].kind = "leader"
    /\ \E i \in 1..leaderLookups : hLog.lookups[i].kind = "noLeader"

C20_BackoffIsMaxHint ==
    /\ [](fgPc = "backoff" =>
            /\ Len(hLog.hints) = Len(incomplete)
            /\ \A i \in 1..Len(hLog.hints) : hLog.hints[i] <= maxMs
            /\ maxMs = 0 \/ \E i \in 1..Len(hLog.hints) : hLog.hints[i] = maxMs)
    /\ [][fgPc = "backoff" =>
            /\ totalSleep' = totalSleep + maxMs
            /\ (totalSleep' # totalSleep) <=> (\E i \in 1..Len(hLog.hints) : hLog.hints[i] # 0)
            /\ fgPc' = "check"]_vars

\* Three sub-ranges; the largest hint came first, and was slept.
C20_Witness ==
    /\ fgPc = "check"
    /\ hLog.hints = <<storageBackoffMs, 0, regionBackoffMs>>
    /\ totalSleep = storageBackoffMs

\* C21: over all iterations of one fineGrainedBackup call the cumulative
\* backoff sleep never exceeds 80000 ms: a backoff that the budget no longer
\* allows fails without sleeping, and fineGrainedBackup returns
\* BackoffExhausted instead of looping again.
C21_SleepWithinBudget ==
    /\ [](totalSleep <= backupFineGrainedMaxBackoff)
    /\ [][(fgPc = "backoff" /\ maxMs # 0) =>
            IF totalSleep + maxMs > backupFineGrainedMaxBackoff
            THEN /\ fgPc' = "returned"
                 /\ fgErr' = "BackoffExhausted"
                 /\ totalSleep' = totalSleep
            ELSE /\ fgPc' = "check"
                 /\ totalSleep' = totalSleep + maxMs]_vars
    /\ [][(fgPc = "backoff" /\ totalSleep = backupFineGrainedMaxBackoff /\ maxMs # 0)
            => fgErr' = "BackoffExhausted"]_vars

\* Four backoffs of 20000 used the budget up, and the fifth failed.
C21_Witness ==
    /\ fgPc = "returned"
    /\ fgErr = "BackoffExhausted"
    /\ totalSleep = backupFineGrainedMaxBackoff
    /\ iter = 5

C23_RegionError ==
    \A i \in 1..Len(hLog.out) :
        LET e == hw.pend.Error
            o == hLog.out[i]
        IN e.Detail = "RegionError" =>
              /\ o.c.isNil
              /\ (\E f \in RegionBenign : f \in e.Region) =>
                    (o.c.backoffMs = regionBackoffMs /\ o.c.err = "nil")
              /\ (\A f \in RegionBenign : f \notin e.Region) =>
                    (o.c.backoffMs = 0 /\ o.c.err = "ErrKVUnknown")

\* A region error with an ignored field and another one set.
C23_Witness ==
    /\ hLog.out # <<>>
    /\ hw.pend.Error.Region = {"KeyNotInRegion", "ServerIsBusy"}
    /\ hLog.out[1].c.backoffMs = regionBackoffMs

\* C24: a cluster-ID error gives no response, the hint 0 and
\* ClusterIDMismatch; an error that is neither KV, region nor cluster-ID
\* gives no response and the hint 3000 without error when its message is a
\* retryable storage error, the hint 0 and KVUnknown otherwise; a response
\* without error is returned unchanged with the hint 0 and no error.
C24_OtherCategories ==
    \A i \in 1..Len(hLog.out) :
        LET e == hw.pend.Error
            c == hLog.out[i].c
        IN /\ e.Detail = "ClusterIdError" =>
                (c.isNil /\ c.backoffMs = 0 /\ c.err = "ErrKVClusterIDMismatch")
           /\ (e.Detail = "other" /\ e.Retryable) =>
                (c.isNil /\ c.backoffMs = storageBackoffMs /\ c.err = "nil")
           /\ (e.Detail = "other" /\ ~e.Retryable) =>
                (c.isNil /\ c.backoffMs = 0 /\ c.err = "ErrKVUnknown")
           /\ e.Detail = "none" =>
                (~c.isNil /\ c.response = hw.pend /\ c.backoffMs = 0 /\ c.err = "nil")

\* An error without detail whose message is a retryable storage error.
C24_Witness ==
    /\ hLog.out # <<>>
    /\ hw.pend.Error.Detail = "other"
    /\ hw.pend.Error.Retryable
    /\ hLog.out[1].c.backoffMs = storageBackoffMs

\* C25: applying OnBackupResponse twice to the same response gives the same
\* hint and error both times, a locked key included.
C25_SameTwice ==
    Len(hLog.out) >= MaxApply =>
        /\ hLog.out[1].c.backoffMs = hLog.out[MaxApply].c.backoffMs
        /\ hLog.out[1].c.err = hLog.out[MaxApply].c.err

\* C26: BackupRanges returns nil exactly when BackupRange returned nil for
\* every range, and otherwise the error of the range that failed first; from
\* that failure on, the context of every other range, running or still to be
\* started, is cancelled.
C26_FirstErrorWins ==
    /\ eg.waited =>
          /\ (eg.ret = 0) <=> (\A i \in 1..Len(eg.tasks) : eg.tasks[i].err = 0)
          /\ eg.ret # 0 => (eg.ret = eg.order[1] /\ eg.tasks[eg.ret].err = eg.ret)
    /\ eg.order # <<>> =>
          \A i \in 1..Len(eg.tasks) : eg.tasks[i].pc # "done" => rangeCtx(eg)

\* Three ranges: the second failed first, the third was then started with
\* the cancelled context, the first failed next; BackupRanges returned the
\* second's error.
C26_Witness ==
    /\ eg.waited
    /\ Len(eg.tasks) = MaxTasks
    /\ Len(eg.order) > 1
    /\ eg.ret = eg.order[1]
    /\ eg.ret > eg.order[Len(eg.order)]
    /\ eg.tasks[MaxTasks].ctx
    /\ eg.tasks[MaxTasks].err = 0

\* C27: file descriptors go to the meta sink only after phase 2 returned nil,
\* one Send per stored interval, in strictly ascending order of the start
\* key and each interval once; the first Send that fails is the last one,
\* and BackupRange returns its error.
C27_EmitInOrder ==
    /\ emitted # <<>> => (brPc \in {"ascend", "done"} /\ fgPc = "returned" /\ fgErr = "nil")
    /\ \A i \in 1..Len(emitted) :
          /\ emitted[i].rg \in results
          /\ i < Len(emitted) =>
                /\ emitted[i].ok
                /\ emitted[i].rg.StartKey < emitted[i + 1].rg.StartKey
          /\ ~emitted[i].ok => (brPc = "done" /\ brErr = "metaWriter")
    /\ (brPc = "done" /\ brErr = "nil") =>
          /\ {emitted[i].rg : i \in 1..Len(emitted)} = results
          /\ Len(emitted) = Cardinality(results)
    /\ (brPc = "done" /\ brErr = "metaWriter") =>
          (emitted # <<>> /\ ~emitted[Len(emitted)].ok)

\* Two stored intervals, the second Send failed and ended the range.
C27_Witness ==
    /\ brPc = "done"
    /\ brErr = "metaWriter"
    /\ Len(emitted) = 2
    /\ Cardinality(results) = 2
    /\ emitted[1].ok

\* C28: BackupRange emits exactly one RangeUnit tick for a range that returns
\* nil and none for a range that returns an error, whichever step failed.
C28_RangeTickIffNil ==
    brPc = "done" =>
        Cardinality({i \in 1..Len(progress) : progress[i] = "range"})
            = (IF brErr = "nil" THEN 1 ELSE 0)

\* C29 as stated: fineGrainedBackup emits a RegionUnit tick exactly in the
\* steps in which a response it took from respCh was inserted into the tree;
\* when the tree of phase 1 covers the range, it returns at once, no request
\* sent, nothing inserted, no tick.
C29_TickPerInsert ==
    /\ [][(progress' = Append(progress, "region"))
            <=> (/\ fgPc = "select"
                 /\ fgRespCh.buf # <<>>
                 /\ fgRespCh'.buf = Tail(fgRespCh.buf)
                 /\ results' # results)]_vars
    /\ []((fgPc = "returned" /\ iter = 0) =>
            (fw = FwStart /\ \A i \in 1..Len(progress) : progress[i] # "region"))

\* C29: fineGrainedBackup emits a RegionUnit tick exactly in the steps in
\* which it took a response without error from respCh and called Put with
\* it, whether or not Put stored the interval; when the tree of phase 1
\* covers the range, it returns nil at once, no request sent, nothing
\* inserted, no tick.
C29_TickPerPut ==
    /\ [][(progress' = Append(progress, "region"))
            <=> (/\ fgPc = "select"
                 /\ fgRespCh.buf # <<>>
                 /\ fgRespCh'.buf = Tail(fgRespCh.buf)
                 /\ Head(fgRespCh.buf).Error = ErrNone
                 /\ results' = Put(results, Head(fgRespCh.buf).StartKey,
                                   Head(fgRespCh.buf).EndKey, Head(fgRespCh.buf).Files))]_vars
    /\ [][(fgPc = "check" /\ fgPc' # "check" /\ FgReturnsNil(results))
            => (/\ fgPc' = "returned"
                /\ fgErr' = "nil"
                /\ UNCHANGED <<results, progress, fw, retry, dispatcher, iter>>)]_vars
    /\ []((fgPc = "returned" /\ iter = 0) =>
            (/\ fgErr = "nil"
             /\ fw = FwStart
             /\ dispatcher.pc = "none"
             /\ \A i \in 1..Len(progress) : progress[i] # "region"))

\* Two responses were taken and ticked, and the tree holds one interval with
\* the files of one response: Put did not store the other.
C29_Witness ==
    /\ fgPc = "select"
    /\ Len(progress) = 2
    /\ progress[1] = "region"
    /\ progress[2] = "region"
    /\ Cardinality(results) = 1
    /\ \A r \in results : Len(r.Files) = 1

\* C30: BackupRange has recorded a failure unit, keyed by the hex-encoded
\* start and end key of the range, exactly when it has returned an error
\* that is not nil, whichever step gave the error; it records none before it
\* returns and none when it returns nil.
C30_FailureUnitIffError ==
    /\ brPc # "done" => failureUnits = {}
    /\ brPc = "done" =>
          failureUnits =
              (IF brErr # "nil"
               THEN {<<"range start:", HexEncode(StartKey), " end:", HexEncode(EndKey)>>}
               ELSE {})
    /\ (brPc = "done" /\ fgPc = "returned" /\ fgErr # "nil") => brErr = fgErr
    /\ (brPc = "done" /\ pushPc = "returned" /\ pushErr # "nil") => brErr = pushErr

\* Phase 2 returned an error, BackupRange returned it and the unit is recorded.
C30_Witness ==
    /\ brPc = "done"
    /\ fgPc = "returned"
    /\ fgErr # "nil"
    /\ brErr = fgErr
    /\ failureUnits # {}

\* C31: with ts = 0 and timeago > 0, the timestamp GetTS returns has the
\* logical counter of the placement driver and, as physical part, the
\* driver's physical time minus timeago at the precision of a millisecond;
\* it is never greater than the driver's timestamp; and GetTS fails with
\* InvalidArgument exactly when timeago reaches before the zero of time, which
\* is when the recomposed value would be greater than the original.
C31_TimeAgo ==
    (getTS.pc = "done" /\ getTS.ts = 0 /\ getTS.duration > 0 /\ ~getTS.pdErr) =>
        LET was == getTS.pdP * SubMs
            now == was - getTS.duration
        IN /\ getTS.err = "nil" =>
                /\ getTS.ret % (2 ^ LogicalBits) = getTS.pdL
                /\ (getTS.ret \div (2 ^ LogicalBits)) * SubMs > now - SubMs
                /\ (getTS.ret \div (2 ^ LogicalBits)) * SubMs < now + SubMs
                /\ getTS.ret <= getTS.pdP * (2 ^ LogicalBits) + getTS.pdL
           /\ (getTS.err = "InvalidArgument") <=> (now <= 0 - SubMs)
           /\ getTS.err \in {"nil", "InvalidArgument", "GCSafepointExceeded"}

\* A timestamp of the driver was moved back by more than a millisecond and
\* returned.
C31_Witness ==
    /\ getTS.pc = "done"
    /\ getTS.ts = 0
    /\ getTS.duration > SubMs
    /\ getTS.err = "nil"
    /\ getTS.ret < getTS.pdP * (2 ^ LogicalBits) + getTS.pdL

\* C32 as stated: with ts = 0 and timeago < 0, GetTS fails with
\* InvalidArgument and returns no timestamp; with ts > 0 it returns ts when
\* the safe-point check passes and an error otherwise, and reads no
\* timestamp from the placement driver.
C32_NegativeIsInvalid ==
    getTS.pc = "done" =>
        /\ (getTS.ts = 0 /\ getTS.duration < 0) =>
              (getTS.err = "InvalidArgument" /\ getTS.ret = 0)
        /\ getTS.ts > 0 =>
              /\ getTS.pdReads = 0
              /\ IF getTS.ts >= getTS.safePoint
                 THEN getTS.err = "nil" /\ getTS.ret = getTS.ts
                 ELSE getTS.err = "GCSafepointExceeded" /\ getTS.ret = 0

\* C32: with ts = 0 and timeago < 0, GetTS returns no timestamp and fails:
\* with the placement driver's error when reading its timestamp failed,
\* with InvalidArgument otherwise; with ts > 0 it returns ts when the
\* safe-point check passes and an error otherwise, and reads no timestamp
\* from the placement driver.
C32_NegativeFails ==
    getTS.pc = "done" =>
        /\ (getTS.ts = 0 /\ getTS.duration < 0) =>
              /\ getTS.ret = 0
              /\ getTS.pdReads = 1
              /\ getTS.err = (IF getTS.pdErr THEN "pd" ELSE "InvalidArgument")
        /\ getTS.ts > 0 =>
              /\ getTS.pdReads = 0
              /\ IF getTS.ts >= getTS.safePoint
                 THEN getTS.err = "nil" /\ getTS.ret = getTS.ts
                 ELSE getTS.err = "GCSafepointExceeded" /\ getTS.ret = 0

\* A negative timeago met a placement driver that failed: GetTS returned the
\* driver's error.
C32_Witness ==
    /\ getTS.pc = "done"
    /\ getTS.ts = 0
    /\ getTS.duration < 0
    /\ getTS.pdErr
    /\ getTS.err = "pd"

\* C33: SetStorage fails with InvalidArgument when it finds the metadata
\* file or the lock file in the target and returns the underlying error when
\* an existence check fails; the client's backend is set only when both
\* files were found absent, and is as it was whenever SetStorage returns an
\* error or has not returned.
C33_SetStorage ==
    \A i \in 1..Len(target.clients) :
        LET c == target.clients[i]
        IN /\ c.sawMeta = "present" => c.setErr = "InvalidArgument"
           /\ c.sawLock = "present" => c.setErr = "InvalidArgument"
           /\ (c.sawMeta = "error" \/ c.sawLock = "error") => c.setErr = "check"
           /\ c.backend = (IF c.setErr = "nil" THEN "given" ELSE "before")
           /\ c.setErr = "nil" => (c.sawMeta = "absent" /\ c.sawLock = "absent")

\* One client found the lock file and failed with its backend as before,
\* the other was let through.
C33_Witness ==
    /\ Len(target.clients) = NClients
    /\ target.clients[1].sawLock = "present"
    /\ target.clients[1].setErr = "InvalidArgument"
    /\ target.clients[1].backend = "before"
    /\ target.clients[NClients].setErr = "nil"
    /\ target.clients[NClients].backend = "given"

\* C34: of two clients that each run SetStorage and then SetLockFile on the
\* same target, at most one completes both without error.
C34_AtMostOneStarts ==
    Cardinality({i \in 1..Len(target.clients) : target.clients[i].pc = "started"}) <= 1

\* C40: a WriteFile(name, data) that returned no error, followed by
\* ReadFile(name), gives data, whether or not the file was there before.
C40_ReadAfterWrite ==
    (target.w.pc = "returned" /\ target.w.err = "nil" /\ target.read # <<>>) =>
        (target.read[1].err = "nil" /\ target.read[1].data = target.w.data)

\* C35: under fair scheduling, with a store and a placement driver that
\* always answer, every fineGrainedBackup call eventually returns.
C35_EventuallyReturns == <>(fgPc = "returned")

\* C36: the supervisor of phase 2 never panics on a backup error: every
\* response a worker puts on the response channel, or holds to put on it, has
\* no error.
C36_NoPanic ==
    /\ fgPc # "panic"
    /\ \A i \in 1..Len(fgRespCh.buf) : fgRespCh.buf[i].Error = ErrNone
    /\ hw.pc = "send" => hw.pend.Error = ErrNone

\* The stream gave a response with an error and then one without: only the
\* second is on the response channel.
C36_Witness ==
    /\ Len(hLog.recvd) = 2
    /\ hLog.recvd[1] # ErrNone
    /\ hLog.recvd[2] = ErrNone
    /\ Len(fgRespCh.buf) = 1
    /\ hw.pc = "recv"

C38_WorkersTerminate ==
    (fgPc = "returned") ~> (FgWorkersDone /\ dispatcher.pc = "done")

\* C39: after pushBackup has returned, for whatever reason, every store
\* worker it spawned eventually terminates.
C39_StoreWorkersTerminate ==
    (pushPc = "returned") ~> (\A s \in 1..spawned : pw[s].pc = "done")

=============================================================================
